---------------------------- MODULE Spec2Model ----------------------------
(***************************************************************************)
(* A model of the GitHub MCP gateway: the tool dispatcher of server.py     *)
(* (call_tool under the handle_error decorator), the adapter operations of *)
(* operations/*.py it routes to, and the error classifier of               *)
(* common/errors.py (handle_github_response).                              *)
(*                                                                         *)
(* Python values that travel as JSON (request bodies, backend bodies,      *)
(* adapter results) are records [t, n, s, m]: t is the type tag, n the     *)
(* number, s the string, m the members (<<key, value>> pairs, in order;    *)
(* a list's members have the key "").  Python str is a TLA+ string.        *)
(***************************************************************************)
EXTENDS Integers, Sequences, FiniteSets, TLC

VARIABLES
    pc,         \* "idle" | "waiting" (a backend call is in flight) | "responded"
    request,    \* the HTTP request of /api/call: [parse_ok, data]
    tool,       \* the branch of call_tool's if/elif chain taken, "" before routing
    calls,      \* the backend calls issued while handling the request, in order
    replies,    \* the backend's successful answers so far: what the adapter's locals hold
    lastResp,   \* the backend's answer to the last call
    exc,        \* the exception that left call_tool's body (NoExc: none)
    result,     \* the adapter's return value (JNull before it returns)
    http,       \* the HTTP response of /api/call
    sessions,   \* the event-stream connections: the locals and frames of each generator
    clock,      \* time.time() in milliseconds
    cap,        \* the pings a run lets one stream emit
    workers,    \* the requests handled at the same time, each with its own locals
    catalog,    \* the module-level TOOLS list
    ret,        \* the calls made to a function of utils.py on its own: [fn, arg, value]
    git,        \* the backend's git database of one repository: its branch ref and commits
    pushes      \* the push_files calls in progress: the position and locals of each

dispatchVars == <<pc, request, tool, calls, replies, lastResp, exc, result, http>>

streamVars == <<sessions, clock, cap>>

serverVars == <<workers, catalog>>

utilVars == <<ret>>

gitVars == <<git, pushes>>

vars == <<pc, request, tool, calls, replies, lastResp, exc, result, http,
          sessions, clock, cap, workers, catalog, ret, git, pushes>>

NoGit == [ref |-> "", commits |-> <<>>, trees |-> <<>>]

\* No function of utils.py is being called on its own, and no push is in progress.
Apart ==
    /\ ret = <<>>
    /\ git = NoGit
    /\ pushes = <<>>

-----------------------------------------------------------------------------
(* Python / JSON values *)

JNull == [t |-> "null", n |-> 0, s |-> "", m |-> <<>>]

JNum(i) == [t |-> "num", n |-> i, s |-> "", m |-> <<>>]

JStr(str) == [t |-> "str", n |-> 0, s |-> str, m |-> <<>>]

JArr(items) == [t |-> "arr", n |-> 0, s |-> "",
                m |-> [i \in 1..Len(items) |-> <<"", items[i]>>]]

JObj(members) == [t |-> "obj", n |-> 0, s |-> "", m |-> members]

\* A value that is no JSON document: what a failed parse leaves.
JErr == [t |-> "err", n |-> 0, s |-> "", m |-> <<>>]

IsDict(v) == v.t = "obj"

HasKey(d, key) == \E i \in 1..Len(d.m) : d.m[i][1] = key

\* dict.get(key, default) and dict[key] for a key that is present.
DictGet(d, key, default) ==
    IF HasKey(d, key)
    THEN d.m[CHOOSE i \in 1..Len(d.m) : d.m[i][1] = key][2]
    ELSE default

\* The dict without the given keys, order kept: {k: v for k, v in d.items() if k not in keys}.
RECURSIVE FilterMembers(_, _)
FilterMembers(ms, keys) ==
    IF ms = <<>> THEN <<>>
    ELSE IF Head(ms)[1] \in keys THEN FilterMembers(Tail(ms), keys)
    ELSE <<Head(ms)>> \o FilterMembers(Tail(ms), keys)

DictWithout(d, keys) == JObj(FilterMembers(d.m, keys))

\* bool(v)
Truthy(v) ==
    CASE v.t = "null" -> FALSE
      [] v.t = "num"  -> v.n # 0
      [] v.t = "str"  -> v.s # ""
      [] OTHER        -> v.m # <<>>

\* str(v) of the values an f-string or an exception message holds here.
PyStr(v) ==
    CASE v.t = "null" -> "None"
      [] v.t = "num"  -> IF v.n < 0 THEN "-" \o ToString(-v.n) ELSE ToString(v.n)
      [] v.t = "str"  -> v.s
      [] v.t = "arr"  -> IF v.m = <<>> THEN "[]" ELSE "[...]"
      [] OTHER        -> IF v.m = <<>> THEN "{}" ELSE "{...}"

-----------------------------------------------------------------------------
(* Strings *)

\* str[a-1:b], cut to the string's ends.
Slice(str, a, b) ==
    LET lo == IF a < 1 THEN 1 ELSE a
        hi == IF b > Len(str) THEN Len(str) ELSE b
    IN IF lo > hi THEN "" ELSE SubSeq(str, lo, hi)

\* The character at position i, "" beyond the string's ends.
CharAt(str, i) == Slice(str, i, i)

\* str.lower(), letter by letter.
LowerChar(c) ==
    CASE c = "A" -> "a" [] c = "B" -> "b" [] c = "C" -> "c" [] c = "D" -> "d"
      [] c = "E" -> "e" [] c = "F" -> "f" [] c = "G" -> "g" [] c = "H" -> "h"
      [] c = "I" -> "i" [] c = "J" -> "j" [] c = "K" -> "k" [] c = "L" -> "l"
      [] c = "M" -> "m" [] c = "N" -> "n" [] c = "O" -> "o" [] c = "P" -> "p"
      [] c = "Q" -> "q" [] c = "R" -> "r" [] c = "S" -> "s" [] c = "T" -> "t"
      [] c = "U" -> "u" [] c = "V" -> "v" [] c = "W" -> "w" [] c = "X" -> "x"
      [] c = "Y" -> "y" [] c = "Z" -> "z" [] OTHER -> c

RECURSIVE Lower(_)
Lower(str) ==
    IF str = "" THEN "" ELSE LowerChar(Head(str)) \o Lower(Tail(str))

\* `needle in hay`
Contains(hay, needle) ==
    \E i \in 1..(Len(hay) - Len(needle) + 1) :
        Slice(hay, i, i + Len(needle) - 1) = needle

-----------------------------------------------------------------------------
(* json.dumps(obj, indent=2) and json.loads *)

DQ == "\""

BS == "\\"

NL == "\n"

\* A serialisation that writes the characters of a string as they are.
EscapeNothing(str) == str

\* The body of a JSON string literal: quote and backslash are escaped.
RECURSIVE EscapeStr(_)
EscapeStr(str) ==
    IF str = "" THEN ""
    ELSE LET c == Head(str) IN
         (IF c = DQ \/ c = BS THEN BS \o c
          ELSE IF c = NL THEN BS \o "n"
          ELSE c) \o EscapeStr(Tail(str))

RECURSIVE Spaces(_)
Spaces(k) == IF k <= 0 THEN "" ELSE " " \o Spaces(k - 1)

RECURSIVE DumpsAt(_, _)
RECURSIVE DumpMembers(_, _, _)
DumpMembers(ms, isObj, level) ==
    IF ms = <<>> THEN ""
    ELSE Spaces(2 * level)
         \o (IF isObj THEN DQ \o EscapeStr(Head(ms)[1]) \o DQ \o ": " ELSE "")
         \o DumpsAt(Head(ms)[2], level)
         \o (IF Tail(ms) = <<>> THEN "" ELSE ",")
         \o NL
         \o DumpMembers(Tail(ms), isObj, level)

DumpsAt(v, level) ==
    CASE v.t = "null" -> "null"
      [] v.t = "num"  -> PyStr(v)
      [] v.t = "str"  -> DQ \o EscapeStr(v.s) \o DQ
      [] v.t = "arr"  -> IF v.m = <<>> THEN "[]"
                         ELSE "[" \o NL \o DumpMembers(v.m, FALSE, level + 1)
                              \o Spaces(2 * level) \o "]"
      [] OTHER        -> IF v.m = <<>> THEN "{}"
                         ELSE "{" \o NL \o DumpMembers(v.m, TRUE, level + 1)
                              \o Spaces(2 * level) \o "}"

json_dumps(v) == DumpsAt(v, 0)

IsDigit(c) == c \in {"0", "1", "2", "3", "4", "5", "6", "7", "8", "9"}

DigitVal(c) ==
    CASE c = "0" -> 0 [] c = "1" -> 1 [] c = "2" -> 2 [] c = "3" -> 3
      [] c = "4" -> 4 [] c = "5" -> 5 [] c = "6" -> 6 [] c = "7" -> 7
      [] c = "8" -> 8 [] OTHER -> 9

IsSpace(c) == c = " " \/ c = NL

\* The first position >= p of text that holds no white space.
RECURSIVE SkipWs(_, _)
SkipWs(text, p) ==
    IF p <= Len(text) /\ IsSpace(CharAt(text, p)) THEN SkipWs(text, p + 1) ELSE p

\* Parsers return [ok, v, p]: the value read and the position after it.
ParseFail == [ok |-> FALSE, v |-> JErr, p |-> 0]

\* The digits from p on, after the value acc.
RECURSIVE ParseDigits(_, _, _)
ParseDigits(text, p, acc) ==
    IF p <= Len(text) /\ IsDigit(CharAt(text, p))
    THEN ParseDigits(text, p + 1, 10 * acc + DigitVal(CharAt(text, p)))
    ELSE [ok |-> TRUE, v |-> JNum(acc), p |-> p]

\* The characters of a string literal from p on (after the opening quote).
RECURSIVE ParseChars(_, _, _)
ParseChars(text, p, acc) ==
    IF p > Len(text) THEN ParseFail
    ELSE LET c == CharAt(text, p) IN
         IF c = DQ THEN [ok |-> TRUE, v |-> JStr(acc), p |-> p + 1]
         ELSE IF c = BS
         THEN IF p + 1 > Len(text) THEN ParseFail
              ELSE LET e == CharAt(text, p + 1) IN
                   IF e = "n" THEN ParseChars(text, p + 2, acc \o NL)
                   ELSE IF e = DQ \/ e = BS THEN ParseChars(text, p + 2, acc \o e)
                   ELSE ParseFail
         ELSE IF c = NL THEN ParseFail
         ELSE ParseChars(text, p + 1, acc \o c)

RECURSIVE ParseValue(_, _)
RECURSIVE ParseItems(_, _, _, _)
\* The members of a list (isObj = FALSE) or dict from p on, after the members acc.
ParseItems(text, p0, isObj, acc) ==
    LET p == SkipWs(text, p0)
        close == IF isObj THEN "}" ELSE "]"
    IN
    IF p > Len(text) THEN ParseFail
    ELSE IF CharAt(text, p) = close /\ acc = <<>>
    THEN [ok |-> TRUE, v |-> IF isObj THEN JObj(acc) ELSE JArr(<<>>), p |-> p + 1]
    ELSE
      LET key == IF isObj
                 THEN IF CharAt(text, p) = DQ THEN ParseChars(text, p + 1, "")
                      ELSE ParseFail
                 ELSE [ok |-> TRUE, v |-> JStr(""), p |-> p]
          q == IF key.ok THEN SkipWs(text, key.p) ELSE 0
          colonOk == key.ok /\ (~isObj \/ (q <= Len(text) /\ CharAt(text, q) = ":"))
          val == IF colonOk
                 THEN ParseValue(text, IF isObj THEN q + 1 ELSE q)
                 ELSE ParseFail
          r == IF val.ok THEN SkipWs(text, val.p) ELSE 0
          acc2 == acc \o << <<key.v.s, val.v>> >>
      IN
      IF ~val.ok \/ r > Len(text) THEN ParseFail
      ELSE IF CharAt(text, r) = ","
      THEN ParseItems(text, r + 1, isObj, acc2)
      ELSE IF CharAt(text, r) = close
      THEN [ok |-> TRUE,
            v |-> [t |-> IF isObj THEN "obj" ELSE "arr", n |-> 0, s |-> "", m |-> acc2],
            p |-> r + 1]
      ELSE ParseFail

ParseValue(text, p0) ==
    LET p == SkipWs(text, p0) IN
    IF p > Len(text) THEN ParseFail
    ELSE LET c == CharAt(text, p) IN
         CASE c = "{" -> ParseItems(text, p + 1, TRUE, <<>>)
           [] c = "[" -> ParseItems(text, p + 1, FALSE, <<>>)
           [] c = DQ  -> ParseChars(text, p + 1, "")
           [] c = "-" -> LET r == ParseDigits(text, p + 1, 0) IN
                         IF r.p = p + 1 THEN ParseFail
                         ELSE [ok |-> TRUE, v |-> JNum(-r.v.n), p |-> r.p]
           [] IsDigit(c) -> ParseDigits(text, p, 0)
           [] c = "n" -> IF Slice(text, p, p + 3) = "null"
                         THEN [ok |-> TRUE, v |-> JNull, p |-> p + 4]
                         ELSE ParseFail
           [] OTHER -> ParseFail

\* json.loads(text): the document, or JErr when text is no JSON document.
json_loads(text) ==
    LET r == ParseValue(text, 1) IN
    IF r.ok /\ SkipWs(text, r.p) > Len(text) THEN r.v ELSE JErr

-----------------------------------------------------------------------------
(* Exceptions (common/errors.py) *)

NoExc == [cls |-> "", message |-> JNull, response |-> JNull, reset_at |-> -1]

\* An exception that is no GitHubError: it has no `response` attribute.
PyExc(cls, text) == [cls |-> cls, message |-> JStr(text), response |-> JNull, reset_at |-> -1]

\* GitHubError.__init__ and its subclasses without a constructor of their own.
GitHubError(cls, message, response) ==
    [cls |-> cls, message |-> message, response |-> response, reset_at |-> -1]

\* GitHubRateLimitError.__init__: reset_at is kept as seconds since the epoch.
GitHubRateLimitError(message, reset_at, response) ==
    [cls |-> "GitHubRateLimitError", message |-> message, response |-> response,
     reset_at |-> reset_at]

\* The classes of the taxonomy: GitHubError and its subclasses.
GitHubErrorClasses ==
    {"GitHubError", "GitHubValidationError", "GitHubResourceNotFoundError",
     "GitHubAuthenticationError", "GitHubPermissionError", "GitHubRateLimitError",
     "GitHubConflictError"}

\* isinstance(error, GitHubError)
is_github_error(e) == e.cls \in GitHubErrorClasses

-----------------------------------------------------------------------------
(* Backend responses (requests.Response) *)

\* body.kind: "empty" (no body), "text" (not JSON), "json" (body.v is the document).
Response(status_code, body, headers) ==
    [status_code |-> status_code, body |-> body, headers |-> headers]

NoResponse == Response(0, [kind |-> "empty", v |-> JNull], <<>>)

EmptyBody == [kind |-> "empty", v |-> JNull]

TextBody == [kind |-> "text", v |-> JNull]

JsonBody(v) == [kind |-> "json", v |-> v]

NoHeaders == [h \in {} |-> ""]

\* requests.Response.ok: no 4xx or 5xx status.
ResponseOk(response) == response.status_code < 400

\* response.json() raises (a ValueError) unless the body is a JSON document.
ResponseJsonRaises(response) == response.body.kind # "json"

\* response.headers.get(name, default): a header's value is a str.
HeadersGet(headers, name, default) ==
    IF name \in DOMAIN headers THEN JStr(headers[name]) ELSE default

\* datetime.utcfromtimestamp(x) takes a number; given a str it raises TypeError.
utcfromtimestamp(x) ==
    IF x.t = "num" THEN [ok |-> TRUE, at |-> x.n] ELSE [ok |-> FALSE, at |-> -1]

-----------------------------------------------------------------------------
(* The error classifier *)

\* handle_github_response(response, error_message): NoExc when it returns, the
\* exception when it raises.
handle_github_response(response, error_message) ==
    IF ResponseOk(response) THEN NoExc
    ELSE
      LET status_code == response.status_code
          response_json == IF ResponseJsonRaises(response) THEN JObj(<<>>)
                           ELSE response.body.v
      IN
      IF ~IsDict(response_json)
      THEN PyExc("AttributeError", "object has no attribute 'get'")
      ELSE
        LET message == DictGet(response_json, "message", JStr(error_message)) IN
        CASE status_code = 400 ->
               GitHubError("GitHubValidationError", message, response_json)
          [] status_code = 401 ->
               GitHubError("GitHubAuthenticationError", message, response_json)
          [] status_code = 403 ->
               IF message.t # "str"
               THEN PyExc("AttributeError", "object has no attribute 'lower'")
               ELSE IF Contains(Lower(message.s), "rate limit")
               THEN LET reset_at == utcfromtimestamp(
                            HeadersGet(response.headers, "X-RateLimit-Reset", JNum(0)))
                    IN IF reset_at.ok
                       THEN GitHubRateLimitError(message, reset_at.at, response_json)
                       ELSE PyExc("TypeError",
                                  "'str' object cannot be interpreted as an integer")
               ELSE GitHubError("GitHubPermissionError", message, response_json)
          [] status_code = 404 ->
               GitHubError("GitHubResourceNotFoundError", message, response_json)
          [] status_code = 409 ->
               GitHubError("GitHubConflictError", message, response_json)
          [] OTHER ->
               GitHubError("GitHubError",
                           JStr(PyStr(message) \o " (Status code: "
                                \o ToString(status_code) \o ")"),
                           response_json)

-----------------------------------------------------------------------------
(* Adapter operations (operations/*.py).                                   *)
(* An operation runs from one backend call to the next.  Given its         *)
(* arguments and the successful answers received so far it yields its next *)
(* step: the call it issues, the value it returns or the exception it      *)
(* raises.  handle_github_response is applied to each answer on arrival,   *)
(* with the error_message the call carries.                                *)

GITHUB_API_URL == "https://api.github.com"

\* requests.get/post/put/patch(url, params=data | json=data); error_message is
\* the default message given to handle_github_response for this call's answer.
Call(method, url, via, data, error_message) ==
    [method |-> method, url |-> url, via |-> via, data |-> data,
     error_message |-> error_message]

NoCall == Call("", "", "none", JNull, "")

DoCall(call) == [kind |-> "call", call |-> call, result |-> JNull, exc |-> NoExc]

DoReturn(v) == [kind |-> "return", call |-> NoCall, result |-> v, exc |-> NoExc]

DoRaise(e) == [kind |-> "raise", call |-> NoCall, result |-> JNull, exc |-> e]

JSONDecodeError == PyExc("JSONDecodeError", "Expecting value")

\* v[key] for a str key: the value, or the KeyError or TypeError it raises.
Subscript(v, key) ==
    IF IsDict(v)
    THEN IF HasKey(v, key) THEN [exc |-> NoExc, v |-> DictGet(v, key, JNull)]
         ELSE [exc |-> PyExc("KeyError", "'" \o key \o "'"), v |-> JErr]
    ELSE [exc |-> PyExc("TypeError", "object is not subscriptable by str"), v |-> JErr]

\* v[key1][key2]
Subscript2(v, key1, key2) ==
    LET a == Subscript(v, key1) IN
    IF a.exc # NoExc THEN a ELSE Subscript(a.v, key2)

\* v.get(key, default) on a value that may be no dict: AttributeError then.
AttrGet(v, key, default) ==
    IF IsDict(v) THEN [exc |-> NoExc, v |-> DictGet(v, key, default)]
    ELSE [exc |-> PyExc("AttributeError", "object has no attribute 'get'"), v |-> JErr]

RepoUrl(owner, repo) ==
    GITHUB_API_URL \o "/repos/" \o PyStr(owner) \o "/" \o PyStr(repo)

\* The shape shared by the operations of one call: issue it, then
\* `return response.json()`.
OneCall(call, rs) ==
    IF rs = <<>> THEN DoCall(call)
    ELSE IF ResponseJsonRaises(rs[1]) THEN DoRaise(JSONDecodeError)
    ELSE DoReturn(rs[1].body.v)

\* The optional members of a params or json dict: `if value: d[key] = value`.
RECURSIVE Optional(_)
Optional(pairs) ==
    IF pairs = <<>> THEN <<>>
    ELSE (IF Truthy(Head(pairs)[2]) THEN <<Head(pairs)>> ELSE <<>>)
         \o Optional(Tail(pairs))

(* operations/repository.py *)

get_repository(owner, repo, rs) ==
    OneCall(Call("GET", RepoUrl(owner, repo), "none", JNull,
                 "Failed to get repository " \o PyStr(owner) \o "/" \o PyStr(repo)),
            rs)

create_repository(options, rs) ==
    OneCall(Call("POST", GITHUB_API_URL \o "/user/repos", "json", options,
                 "Failed to create repository"),
            rs)

fork_repository(owner, repo, organization, rs) ==
    OneCall(Call("POST", RepoUrl(owner, repo) \o "/forks", "json",
                 JObj(Optional(<< <<"organization", organization>> >>)),
                 "Failed to fork repository " \o PyStr(owner) \o "/" \o PyStr(repo)),
            rs)

(* operations/issues.py *)

IssueUrl(owner, repo, issue_number) ==
    RepoUrl(owner, repo) \o "/issues/" \o PyStr(issue_number)

get_issue(owner, repo, issue_number, rs) ==
    OneCall(Call("GET", IssueUrl(owner, repo, issue_number), "none", JNull,
                 "Failed to get issue #" \o PyStr(issue_number)),
            rs)

create_issue(owner, repo, options, rs) ==
    OneCall(Call("POST", RepoUrl(owner, repo) \o "/issues", "json", options,
                 "Failed to create issue"),
            rs)

update_issue(owner, repo, issue_number, options, rs) ==
    OneCall(Call("PATCH", IssueUrl(owner, repo, issue_number), "json", options,
                 "Failed to update issue #" \o PyStr(issue_number)),
            rs)

add_issue_comment(owner, repo, issue_number, body, rs) ==
    OneCall(Call("POST", IssueUrl(owner, repo, issue_number) \o "/comments", "json",
                 JObj(<< <<"body", body>> >>),
                 "Failed to add comment to issue #" \o PyStr(issue_number)),
            rs)

(* common/utils.py: parse_link_header *)

\* str.split(sep) for a one-character sep.
RECURSIVE SplitFrom(_, _, _, _)
SplitFrom(str, sep, p, piece) ==
    IF p > Len(str) THEN <<piece>>
    ELSE IF CharAt(str, p) = sep THEN <<piece>> \o SplitFrom(str, sep, p + 1, "")
    ELSE SplitFrom(str, sep, p + 1, piece \o CharAt(str, p))

Split(str, sep) == SplitFrom(str, sep, 1, "")

\* The first position >= p of str that holds the character c, 0 when none does.
RECURSIVE Find(_, _, _)
Find(str, c, p) ==
    IF p > Len(str) THEN 0
    ELSE IF CharAt(str, p) = c THEN p
    ELSE Find(str, c, p + 1)

\* \s of a regular expression.
IsReSpace(c) == c \in {" ", "\t", "\n", "\r", "\f"}

RECURSIVE SkipReSpace(_, _)
SkipReSpace(str, p) ==
    IF p <= Len(str) /\ IsReSpace(CharAt(str, p)) THEN SkipReSpace(str, p + 1) ELSE p

\* re.match of <([^>]*)>;\s*rel="([^"]*)" at position p of link.
LinkMatchAt(link, p) ==
    LET gt == Find(link, ">", p + 1)
        k == SkipReSpace(link, gt + 2)
        q == Find(link, DQ, k + 5)
    IN
    IF /\ CharAt(link, p) = "<"
       /\ gt # 0
       /\ CharAt(link, gt + 1) = ";"
       /\ Slice(link, k, k + 4) = "rel=" \o DQ
       /\ q # 0
    THEN [ok |-> TRUE, url |-> Slice(link, p + 1, gt - 1), rel |-> Slice(link, k + 5, q - 1)]
    ELSE [ok |-> FALSE, url |-> "", rel |-> ""]

\* re.search: the match at the leftmost position that has one.
RECURSIVE LinkSearch(_, _)
LinkSearch(link, p) ==
    IF p > Len(link) THEN [ok |-> FALSE, url |-> "", rel |-> ""]
    ELSE IF LinkMatchAt(link, p).ok THEN LinkMatchAt(link, p)
    ELSE LinkSearch(link, p + 1)

\* d[key] = value
DictSet(d, key, value) ==
    IF HasKey(d, key)
    THEN JObj([i \in 1..Len(d.m) |-> IF d.m[i][1] = key THEN <<key, value>> ELSE d.m[i]])
    ELSE JObj(d.m \o << <<key, value>> >>)

RECURSIVE ParseLinks(_, _)
ParseLinks(pieces, links) ==
    IF pieces = <<>> THEN links
    ELSE LET match == LinkSearch(Head(pieces), 1) IN
         ParseLinks(Tail(pieces),
                    IF match.ok THEN DictSet(links, match.rel, JStr(match.url)) ELSE links)

\* A parser that reads the first link of the header and no other.
parse_first_link(link_header) ==
    IF ~Truthy(link_header) THEN JObj(<<>>)
    ELSE ParseLinks(<<Head(Split(link_header.s, ","))>>, JObj(<<>>))

\* parse_link_header(link_header); link_header is None or a str.
parse_link_header(link_header) ==
    IF ~Truthy(link_header) THEN JObj(<<>>)
    ELSE ParseLinks(Split(link_header.s, ","), JObj(<<>>))

\* A pagination dict that carries the links whether there are any or not.
PaginationWithLinks(page, per_page, extra, response) ==
    JObj(<< <<"page", page>>, <<"per_page", per_page>> >> \o extra
         \o << <<"links", parse_link_header(HeadersGet(response.headers, "Link", JNull))>> >>)

\* The pagination dict of a list or search result: page and per_page, then
\* the extra members, then the links when the Link header gave any.
Pagination(page, per_page, extra, response) ==
    LET links == parse_link_header(HeadersGet(response.headers, "Link", JNull)) IN
    JObj(<< <<"page", page>>, <<"per_page", per_page>> >> \o extra
         \o (IF Truthy(links) THEN << <<"links", links>> >> ELSE <<>>))

\* The shape shared by list_commits, list_issues and list_pull_requests.
ListCall(url, params, error_message, page, per_page, rs) ==
    IF rs = <<>> THEN DoCall(Call("GET", url, "params", params, error_message))
    ELSE IF ResponseJsonRaises(rs[1]) THEN DoRaise(JSONDecodeError)
    ELSE DoReturn(JObj(<< <<"items", rs[1].body.v>>,
                          <<"pagination", Pagination(page, per_page, <<>>, rs[1])>> >>))

\* The shape shared by search_repositories, search_code, search_issues and
\* search_users: the body's total_count and items are read with results.get.
SearchCall(url, query, page, per_page, error_message, rs) ==
    IF rs = <<>>
    THEN DoCall(Call("GET", url, "params",
                     JObj(<< <<"q", query>>, <<"page", page>>, <<"per_page", per_page>> >>),
                     error_message))
    ELSE IF ResponseJsonRaises(rs[1]) THEN DoRaise(JSONDecodeError)
    ELSE LET results == rs[1].body.v
             total_count == AttrGet(results, "total_count", JNum(0))
         IN
         IF total_count.exc # NoExc THEN DoRaise(total_count.exc)
         ELSE DoReturn(JObj(<<
                <<"items", DictGet(results, "items", JArr(<<>>))>>,
                <<"pagination",
                  Pagination(page, per_page, << <<"total_count", total_count.v>> >>, rs[1])>> >>))

search_repositories(query, page, per_page, rs) ==
    SearchCall(GITHUB_API_URL \o "/search/repositories", query, page, per_page,
               "Repository search failed", rs)

(* operations/search.py: the options dict is read with options.get *)

SearchOptions(options, url, error_message, rs) ==
    IF ~IsDict(options)
    THEN DoRaise(PyExc("AttributeError", "object has no attribute 'get'"))
    ELSE SearchCall(url, DictGet(options, "query", JStr("")),
                    DictGet(options, "page", JNum(1)),
                    DictGet(options, "per_page", JNum(30)), error_message, rs)

search_code(options, rs) ==
    SearchOptions(options, GITHUB_API_URL \o "/search/code", "Code search failed", rs)

search_issues(options, rs) ==
    SearchOptions(options, GITHUB_API_URL \o "/search/issues", "Issues search failed", rs)

search_users(options, rs) ==
    SearchOptions(options, GITHUB_API_URL \o "/search/users", "Users search failed", rs)

(* operations/commits.py, operations/issues.py, operations/pulls.py: lists *)

list_commits(owner, repo, page, per_page, sha, rs) ==
    ListCall(RepoUrl(owner, repo) \o "/commits",
             JObj(<< <<"page", page>>, <<"per_page", per_page>> >>
                  \o Optional(<< <<"sha", sha>> >>)),
             "Failed to list commits for " \o PyStr(owner) \o "/" \o PyStr(repo),
             page, per_page, rs)

list_issues(owner, repo, state, sort, direction, page, per_page, rs) ==
    ListCall(RepoUrl(owner, repo) \o "/issues",
             JObj(<< <<"page", page>>, <<"per_page", per_page>> >>
                  \o Optional(<< <<"state", state>>, <<"sort", sort>>,
                                 <<"direction", direction>> >>)),
             "Failed to list issues for " \o PyStr(owner) \o "/" \o PyStr(repo),
             page, per_page, rs)

list_pull_requests(owner, repo, state, head, base, sort, direction, page, per_page, rs) ==
    ListCall(RepoUrl(owner, repo) \o "/pulls",
             JObj(<< <<"page", page>>, <<"per_page", per_page>> >>
                  \o Optional(<< <<"state", state>>, <<"head", head>>, <<"base", base>>,
                                 <<"sort", sort>>, <<"direction", direction>> >>)),
             "Failed to list pull requests for " \o PyStr(owner) \o "/" \o PyStr(repo),
             page, per_page, rs)

(* common/utils.py: encode_content, decode_content *)

\* The printable ASCII characters of codes 32 to 95 and of codes 97 to 126
\* (a TLA+ string cannot hold the backquote, code 96: no string here has it).
ASCII_LO ==
    " !" \o DQ \o "#$%&'()*+,-./0123456789:;<=>?@ABCDEFGHIJKLMNOPQRSTUVWXYZ["
    \o BS \o "]^_"

ASCII_HI == "abcdefghijklmnopqrstuvwxyz{|}~"

B64 == "ABCDEFGHIJKLMNOPQRSTUVWXYZabcdefghijklmnopqrstuvwxyz0123456789+/"

\* str.encode('utf-8') of one character (line feed and printable ASCII).
Ord(c) ==
    IF c = NL THEN 10
    ELSE IF Find(ASCII_LO, c, 1) # 0 THEN 31 + Find(ASCII_LO, c, 1)
    ELSE 96 + Find(ASCII_HI, c, 1)

\* bytes.decode('utf-8') of one byte below 128.
Chr(b) ==
    IF b = 10 THEN NL
    ELSE IF b < 96 THEN CharAt(ASCII_LO, b - 31)
    ELSE CharAt(ASCII_HI, b - 96)

RECURSIVE Utf8Encode(_)
Utf8Encode(str) ==
    IF str = "" THEN <<>> ELSE <<Ord(Head(str))>> \o Utf8Encode(Tail(str))

B64Char(i) == CharAt(B64, i + 1)

\* base64.b64encode of a byte sequence.
RECURSIVE b64encode(_)
b64encode(bytes) ==
    IF bytes = <<>> THEN ""
    ELSE IF Len(bytes) = 1
    THEN B64Char(bytes[1] \div 4) \o B64Char((bytes[1] % 4) * 16) \o "=="
    ELSE IF Len(bytes) = 2
    THEN B64Char(bytes[1] \div 4)
         \o B64Char((bytes[1] % 4) * 16 + bytes[2] \div 16)
         \o B64Char((bytes[2] % 16) * 4) \o "="
    ELSE B64Char(bytes[1] \div 4)
         \o B64Char((bytes[1] % 4) * 16 + bytes[2] \div 16)
         \o B64Char((bytes[2] % 16) * 4 + bytes[3] \div 64)
         \o B64Char(bytes[3] % 64)
         \o b64encode(SubSeq(bytes, 4, Len(bytes)))

\* encode_content(content): content.encode raises AttributeError unless content is a str.
encode_content(content) ==
    IF content.t # "str"
    THEN [exc |-> PyExc("AttributeError", "object has no attribute 'encode'"), v |-> JErr]
    ELSE [exc |-> NoExc, v |-> JStr(b64encode(Utf8Encode(content.s)))]

\* The base64 digits of str up to its padding: other characters are discarded.
RECURSIVE B64Digits(_)
B64Digits(str) ==
    IF str = "" \/ Head(str) = "=" THEN <<>>
    ELSE (IF Find(B64, Head(str), 1) # 0 THEN <<Find(B64, Head(str), 1) - 1>> ELSE <<>>)
         \o B64Digits(Tail(str))

RECURSIVE CountPad(_)
CountPad(str) ==
    IF str = "" THEN 0
    ELSE (IF Head(str) = "=" THEN 1 ELSE 0) + CountPad(Tail(str))

\* The bytes of a sequence of base64 digits whose length is no 1 modulo 4.
RECURSIVE B64Bytes(_)
B64Bytes(d) ==
    IF Len(d) < 2 THEN <<>>
    ELSE IF Len(d) = 2 THEN <<d[1] * 4 + d[2] \div 16>>
    ELSE IF Len(d) = 3
    THEN <<d[1] * 4 + d[2] \div 16, (d[2] % 16) * 16 + d[3] \div 4>>
    ELSE <<d[1] * 4 + d[2] \div 16, (d[2] % 16) * 16 + d[3] \div 4,
           (d[3] % 4) * 64 + d[4]>>
         \o B64Bytes(SubSeq(d, 5, Len(d)))

RECURSIVE Utf8Decode(_)
Utf8Decode(bytes) ==
    IF bytes = <<>> THEN "" ELSE Chr(Head(bytes)) \o Utf8Decode(Tail(bytes))

\* decode_content(encoded_content): base64.b64decode raises (TypeError) unless
\* given a str, (binascii.Error) on a wrong length or padding; decode('utf-8')
\* raises (UnicodeDecodeError) on a byte that starts no character.
decode_content(encoded_content) ==
    IF encoded_content.t # "str"
    THEN [exc |-> PyExc("TypeError", "argument should be a bytes-like object or ASCII string"),
          v |-> JErr]
    ELSE
      LET d == B64Digits(encoded_content.s)
          pad == CountPad(encoded_content.s)
          bytes == B64Bytes(d)
      IN
      IF Len(d) % 4 = 1 \/ (Len(d) % 4 # 0 /\ pad < 4 - (Len(d) % 4))
      THEN [exc |-> PyExc("binascii.Error", "Incorrect padding"), v |-> JErr]
      ELSE IF \E i \in 1..Len(bytes) : bytes[i] >= 128 \/ (bytes[i] < 32 /\ bytes[i] # 10)
      THEN [exc |-> PyExc("UnicodeDecodeError", "invalid start byte"), v |-> JErr]
      ELSE [exc |-> NoExc, v |-> JStr(Utf8Decode(bytes))]

(* operations/files.py *)

get_file_contents(owner, repo, path, branch, rs) ==
    IF rs = <<>>
    THEN DoCall(Call("GET", RepoUrl(owner, repo) \o "/contents/" \o PyStr(path), "params",
                     JObj(Optional(<< <<"ref", branch>> >>)),
                     "Failed to get file contents for " \o PyStr(path)))
    ELSE IF ResponseJsonRaises(rs[1]) THEN DoRaise(JSONDecodeError)
    ELSE
      LET res == rs[1].body.v IN
      IF res.t = "arr"
      THEN DoReturn(JObj(<< <<"type", JStr("directory")>>, <<"path", path>>,
                            <<"contents", res>> >>))
      ELSE IF ~IsDict(res)
      THEN DoRaise(PyExc("AttributeError", "object has no attribute 'get'"))
      ELSE IF DictGet(res, "type", JNull) = JStr("file") /\ HasKey(res, "content")
      THEN LET decoded == decode_content(DictGet(res, "content", JNull)) IN
           IF decoded.exc # NoExc THEN DoRaise(decoded.exc)
           ELSE DoReturn(DictSet(res, "decoded_content", decoded.v))
      ELSE DoReturn(res)

create_or_update_file(owner, repo, path, content, message, branch, sha, rs) ==
    LET encoded == encode_content(content) IN
    IF encoded.exc # NoExc THEN DoRaise(encoded.exc)
    ELSE OneCall(Call("PUT", RepoUrl(owner, repo) \o "/contents/" \o PyStr(path), "json",
                      JObj(<< <<"message", message>>, <<"content", encoded.v>> >>
                           \o Optional(<< <<"branch", branch>>, <<"sha", sha>> >>)),
                      "Failed to create/update file at " \o PyStr(path)),
                 rs)

\* The tree entries push_files builds from `files`: the loop raises TypeError
\* over a value that cannot be iterated or whose items are no dicts, KeyError
\* on a file object without path or content.
RECURSIVE TreeEntries(_, _)
TreeEntries(items, acc) ==
    IF items = <<>> THEN [exc |-> NoExc, v |-> JArr(acc)]
    ELSE LET file_obj == Head(items)[2]
             path == Subscript(file_obj, "path")
             content == Subscript(file_obj, "content")
         IN
         IF path.exc # NoExc THEN path
         ELSE IF content.exc # NoExc THEN content
         ELSE TreeEntries(Tail(items),
                Append(acc, JObj(<< <<"path", path.v>>, <<"mode", JStr("100644")>>,
                                    <<"type", JStr("blob")>>, <<"content", content.v>> >>)))

FileTree(files) ==
    CASE files.t = "arr" -> TreeEntries(files.m, <<>>)
      [] files.t = "obj" ->
           IF files.m = <<>> THEN [exc |-> NoExc, v |-> JArr(<<>>)]
           ELSE [exc |-> PyExc("TypeError", "string indices must be integers"), v |-> JErr]
      [] files.t = "str" ->
           IF files.s = "" THEN [exc |-> NoExc, v |-> JArr(<<>>)]
           ELSE [exc |-> PyExc("TypeError", "string indices must be integers"), v |-> JErr]
      [] OTHER -> [exc |-> PyExc("TypeError", "object is not iterable"), v |-> JErr]

\* len(files) of a value FileTree accepts.
FilesLen(files) == IF files.t = "arr" THEN Len(files.m) ELSE 0

\* A commit made with no parent at all.
OrphanParents(parent) == JArr(<<>>)

\* "parents": [commit["sha"]]
CommitParents(parent) == JArr(<<parent>>)

push_files(owner, repo, branch, files, message, rs) ==
    LET ref_url == RepoUrl(owner, repo) \o "/git/refs/heads/" \o PyStr(branch)
        git_url == RepoUrl(owner, repo) \o "/git"
        n == Len(rs)
    IN
    IF n = 0
    THEN DoCall(Call("GET", ref_url, "none", JNull,
                     "Failed to get ref for branch " \o PyStr(branch)))
    ELSE IF \E i \in 1..(IF n < 4 THEN n ELSE 4) : ResponseJsonRaises(rs[i])
    THEN DoRaise(JSONDecodeError)
    ELSE IF n = 1
    THEN LET sha == Subscript2(rs[1].body.v, "object", "sha") IN
         IF sha.exc # NoExc THEN DoRaise(sha.exc)
         ELSE DoCall(Call("GET", git_url \o "/commits/" \o PyStr(sha.v), "none", JNull,
                          "Failed to get commit"))
    ELSE IF n = 2
    THEN LET base_tree == Subscript2(rs[2].body.v, "tree", "sha")
             tree == FileTree(files)
         IN
         IF base_tree.exc # NoExc THEN DoRaise(base_tree.exc)
         ELSE IF tree.exc # NoExc THEN DoRaise(tree.exc)
         ELSE DoCall(Call("POST", git_url \o "/trees", "json",
                          JObj(<< <<"base_tree", base_tree.v>>, <<"tree", tree.v>> >>),
                          "Failed to create tree"))
    ELSE IF n = 3
    THEN LET tree_sha == Subscript(rs[3].body.v, "sha")
             parent == Subscript(rs[2].body.v, "sha")
         IN
         IF tree_sha.exc # NoExc THEN DoRaise(tree_sha.exc)
         ELSE IF parent.exc # NoExc THEN DoRaise(parent.exc)
         ELSE DoCall(Call("POST", git_url \o "/commits", "json",
                          JObj(<< <<"message", message>>, <<"tree", tree_sha.v>>,
                                  <<"parents", CommitParents(parent.v)>> >>),
                          "Failed to create commit"))
    ELSE IF n = 4
    THEN LET new_sha == Subscript(rs[4].body.v, "sha") IN
         IF new_sha.exc # NoExc THEN DoRaise(new_sha.exc)
         ELSE DoCall(Call("PATCH", ref_url, "json", JObj(<< <<"sha", new_sha.v>> >>),
                          "Failed to update reference"))
    ELSE DoReturn(JObj(<<
           <<"message", JStr("Successfully pushed " \o ToString(FilesLen(files)) \o " files")>>,
           <<"commit", rs[4].body.v>>,
           <<"branch", branch>> >>))

(* operations/branches.py *)

\* A create_branch that reads no ref: it creates the new ref at once, with the
\* source branch's name where the sha belongs.
create_branch_unread(owner, repo, branch, from_branch, rs) ==
    IF rs = <<>>
    THEN DoCall(Call("POST", RepoUrl(owner, repo) \o "/git/refs", "json",
                     JObj(<< <<"ref", JStr("refs/heads/" \o PyStr(branch))>>,
                             <<"sha", from_branch>> >>),
                     "Failed to create branch " \o PyStr(branch)))
    ELSE IF ResponseJsonRaises(rs[1]) THEN DoRaise(JSONDecodeError)
    ELSE DoReturn(JObj(<< <<"name", branch>>, <<"sha", from_branch>> >>))

create_branch_from_ref(owner, repo, branch, from_branch, rs) ==
    LET n == Len(rs) IN
    IF n = 0
    THEN DoCall(Call("GET", RepoUrl(owner, repo) \o "/git/refs/heads/" \o PyStr(from_branch),
                     "none", JNull,
                     "Failed to get reference for branch " \o PyStr(from_branch)))
    ELSE IF ResponseJsonRaises(rs[1]) THEN DoRaise(JSONDecodeError)
    ELSE
      LET sha == Subscript2(rs[1].body.v, "object", "sha")
          ref == JStr("refs/heads/" \o PyStr(branch))
      IN
      IF sha.exc # NoExc THEN DoRaise(sha.exc)
      ELSE IF n = 1
      THEN DoCall(Call("POST", RepoUrl(owner, repo) \o "/git/refs", "json",
                       JObj(<< <<"ref", ref>>, <<"sha", sha.v>> >>),
                       "Failed to create branch " \o PyStr(branch)))
      ELSE IF ResponseJsonRaises(rs[2]) THEN DoRaise(JSONDecodeError)
      ELSE LET url == AttrGet(rs[2].body.v, "url", JNull) IN
           IF url.exc # NoExc THEN DoRaise(url.exc)
           ELSE DoReturn(JObj(<< <<"name", branch>>, <<"ref", ref>>, <<"sha", sha.v>>,
                                 <<"from_branch", from_branch>>, <<"url", url.v>> >>))

(* operations/pulls.py *)

PullUrl(owner, repo, pull_number) ==
    RepoUrl(owner, repo) \o "/pulls/" \o PyStr(pull_number)

get_pull_request(owner, repo, pull_number, rs) ==
    OneCall(Call("GET", PullUrl(owner, repo, pull_number), "none", JNull,
                 "Failed to get pull request #" \o PyStr(pull_number)),
            rs)

\* options.pop("owner"), options.pop("repo"): AttributeError or TypeError on a
\* value that is no dict, KeyError on a dict without the key.
create_pull_request(options, rs) ==
    IF ~IsDict(options)
    THEN DoRaise(IF options.t = "arr"
                 THEN PyExc("TypeError", "'str' object cannot be interpreted as an integer")
                 ELSE PyExc("AttributeError", "object has no attribute 'pop'"))
    ELSE IF ~HasKey(options, "owner") THEN DoRaise(PyExc("KeyError", "'owner'"))
    ELSE IF ~HasKey(options, "repo") THEN DoRaise(PyExc("KeyError", "'repo'"))
    ELSE OneCall(Call("POST",
                      RepoUrl(DictGet(options, "owner", JNull), DictGet(options, "repo", JNull))
                      \o "/pulls",
                      "json", DictWithout(options, {"owner", "repo"}),
                      "Failed to create pull request"),
                 rs)

get_pull_request_files(owner, repo, pull_number, rs) ==
    OneCall(Call("GET", PullUrl(owner, repo, pull_number) \o "/files", "none", JNull,
                 "Failed to get files for PR #" \o PyStr(pull_number)),
            rs)

create_pull_request_review(owner, repo, pull_number, options, rs) ==
    OneCall(Call("POST", PullUrl(owner, repo, pull_number) \o "/reviews", "json", options,
                 "Failed to create review for PR #" \o PyStr(pull_number)),
            rs)

get_pull_request_reviews(owner, repo, pull_number, rs) ==
    OneCall(Call("GET", PullUrl(owner, repo, pull_number) \o "/reviews", "none", JNull,
                 "Failed to get reviews for PR #" \o PyStr(pull_number)),
            rs)

get_pull_request_comments(owner, repo, pull_number, rs) ==
    OneCall(Call("GET", PullUrl(owner, repo, pull_number) \o "/comments", "none", JNull,
                 "Failed to get comments for PR #" \o PyStr(pull_number)),
            rs)

get_pull_request_status(owner, repo, pull_number, rs) ==
    IF rs = <<>>
    THEN DoCall(Call("GET", PullUrl(owner, repo, pull_number), "none", JNull,
                     "Failed to get PR #" \o PyStr(pull_number)))
    ELSE IF ResponseJsonRaises(rs[1]) THEN DoRaise(JSONDecodeError)
    ELSE LET sha == Subscript2(rs[1].body.v, "head", "sha") IN
         IF sha.exc # NoExc THEN DoRaise(sha.exc)
         ELSE IF Len(rs) = 1
         THEN DoCall(Call("GET",
                          RepoUrl(owner, repo) \o "/commits/" \o PyStr(sha.v) \o "/status",
                          "none", JNull,
                          "Failed to get status for PR #" \o PyStr(pull_number)))
         ELSE IF ResponseJsonRaises(rs[2]) THEN DoRaise(JSONDecodeError)
         ELSE DoReturn(rs[2].body.v)

\* data = options or {}
\* A merge that sends the merge method and none of the other options.
merge_pull_request_method_only(owner, repo, pull_number, options, rs) ==
    OneCall(Call("PUT", PullUrl(owner, repo, pull_number) \o "/merge", "json",
                 JObj(Optional(<< <<"merge_method", DictGet(options, "merge_method", JNull)>> >>)),
                 "Failed to merge PR #" \o PyStr(pull_number)),
            rs)

merge_pull_request(owner, repo, pull_number, options, rs) ==
    OneCall(Call("PUT", PullUrl(owner, repo, pull_number) \o "/merge", "json",
                 IF Truthy(options) THEN options ELSE JObj(<<>>),
                 "Failed to merge PR #" \o PyStr(pull_number)),
            rs)

update_pull_request_branch(owner, repo, pull_number, expected_head_sha, rs) ==
    OneCall(Call("PUT", PullUrl(owner, repo, pull_number) \o "/update-branch", "json",
                 JObj(Optional(<< <<"expected_head_sha", expected_head_sha>> >>)),
                 "Failed to update branch for PR #" \o PyStr(pull_number)),
            rs)

-----------------------------------------------------------------------------
(* The tool dispatcher (server.py) *)

\* The catalog that /api/tools lists.
TOOLS == <<
    [name |-> "create_or_update_file",
     description |-> "Create or update a single file in a GitHub repository"],
    [name |-> "search_repositories",
     description |-> "Search for GitHub repositories"],
    [name |-> "create_repository",
     description |-> "Create a new GitHub repository in your account"],
    [name |-> "get_file_contents",
     description |-> "Get the contents of a file or directory from a GitHub repository"],
    [name |-> "push_files",
     description |-> "Push multiple files to a GitHub repository in a single commit"],
    [name |-> "create_issue",
     description |-> "Create a new issue in a GitHub repository"],
    [name |-> "create_pull_request",
     description |-> "Create a new pull request in a GitHub repository"],
    [name |-> "fork_repository",
     description |-> "Fork a GitHub repository to your account or specified organization"],
    [name |-> "create_branch",
     description |-> "Create a new branch in a GitHub repository"],
    [name |-> "list_commits",
     description |-> "Get list of commits of a branch in a GitHub repository"],
    [name |-> "list_issues",
     description |-> "List issues in a GitHub repository with filtering options"],
    [name |-> "update_issue",
     description |-> "Update an existing issue in a GitHub repository"],
    [name |-> "add_issue_comment",
     description |-> "Add a comment to an existing issue"],
    [name |-> "search_code",
     description |-> "Search for code across GitHub repositories"],
    [name |-> "search_issues",
     description |-> "Search for issues and pull requests across GitHub repositories"],
    [name |-> "search_users",
     description |-> "Search for users on GitHub"],
    [name |-> "get_issue",
     description |-> "Get details of a specific issue in a GitHub repository"],
    [name |-> "get_pull_request",
     description |-> "Get details of a specific pull request"],
    [name |-> "list_pull_requests",
     description |-> "List and filter repository pull requests"],
    [name |-> "create_pull_request_review",
     description |-> "Create a review on a pull request"],
    [name |-> "merge_pull_request",
     description |-> "Merge a pull request"],
    [name |-> "get_pull_request_files",
     description |-> "Get the list of files changed in a pull request"],
    [name |-> "get_pull_request_status",
     description |-> "Get the combined status of all status checks for a pull request"],
    [name |-> "update_pull_request_branch",
     description |-> "Update a pull request branch with the latest changes from the base branch"],
    [name |-> "get_pull_request_comments",
     description |-> "Get the review comments on a pull request"],
    [name |-> "get_pull_request_reviews",
     description |-> "Get the reviews on a pull request"]
>>

\* The literals call_tool's if/elif chain compares tool_name with, in order.
BRANCHES == <<
    "search_repositories", "get_repository", "create_repository", "fork_repository",
    "get_file_contents", "create_or_update_file", "push_files", "create_branch",
    "list_commits", "create_issue", "list_issues", "update_issue", "add_issue_comment",
    "get_issue", "create_pull_request", "get_pull_request", "list_pull_requests",
    "get_pull_request_files", "create_pull_request_review", "merge_pull_request",
    "get_pull_request_status", "update_pull_request_branch",
    "get_pull_request_comments", "get_pull_request_reviews", "search_code",
    "search_issues", "search_users"
>>

\* tool_name == literal
\* A comparison that takes a name for a routed one when it starts with it.
NameStartsWith(tool_name, literal) ==
    /\ tool_name.t = "str"
    /\ Slice(tool_name.s, 1, Len(literal)) = literal

NameIs(tool_name, literal) == tool_name = JStr(literal)

\* The branch of the if/elif chain taken: the first literal tool_name equals,
\* "" for the else branch.
RECURSIVE FirstBranch(_, _)
FirstBranch(tool_name, literals) ==
    IF literals = <<>> THEN ""
    ELSE IF NameIs(tool_name, Head(literals)) THEN Head(literals)
    ELSE FirstBranch(tool_name, Tail(literals))

Branch(tool_name) == FirstBranch(tool_name, BRANCHES)

\* The branches that hand `args` to the operation untouched; every other
\* branch reads it with args.get, args.items or args.pop.
PassesArgs == {"create_repository", "create_pull_request", "search_code",
               "search_issues", "search_users"}

\* The body of one branch: the operation with the arguments call_tool extracts.
RunBranch(branch, a, rs) ==
    LET Arg(key) == DictGet(a, key, JNull)
        owner == Arg("owner")
        repo == Arg("repo")
        page == DictGet(a, "page", JNum(1))
        perPage == DictGet(a, "perPage", JNum(30))
        pull_number == Arg("pull_number")
        issue_number == Arg("issue_number")
    IN
    IF branch = "update_issue" /\ a.t = "arr"
    THEN DoRaise(PyExc("TypeError", "pop expected at most 1 argument, got 2"))
    ELSE IF branch \notin PassesArgs /\ ~IsDict(a)
    THEN DoRaise(PyExc("AttributeError", "object has no attribute 'get'"))
    ELSE
    CASE branch = "search_repositories" ->
           search_repositories(DictGet(a, "query", JStr("")), page, perPage, rs)
      [] branch = "get_repository" -> get_repository(owner, repo, rs)
      [] branch = "create_repository" -> create_repository(a, rs)
      [] branch = "fork_repository" ->
           fork_repository(owner, repo, Arg("organization"), rs)
      [] branch = "get_file_contents" ->
           get_file_contents(owner, repo, Arg("path"), Arg("branch"), rs)
      [] branch = "create_or_update_file" ->
           create_or_update_file(owner, repo, Arg("path"), Arg("content"), Arg("message"),
                                 Arg("branch"), Arg("sha"), rs)
      [] branch = "push_files" ->
           push_files(owner, repo, Arg("branch"), Arg("files"), Arg("message"), rs)
      [] branch = "create_branch" ->
           create_branch_from_ref(owner, repo, Arg("branch"), Arg("from_branch"), rs)
      [] branch = "list_commits" ->
           list_commits(owner, repo, page, perPage, Arg("sha"), rs)
      [] branch = "create_issue" ->
           create_issue(owner, repo, DictWithout(a, {"owner", "repo"}), rs)
      [] branch = "list_issues" ->
           list_issues(owner, repo, Arg("state"), Arg("sort"), Arg("direction"),
                       page, perPage, rs)
      [] branch = "update_issue" ->
           update_issue(owner, repo, issue_number,
                        DictWithout(a, {"issue_number", "owner", "repo"}), rs)
      [] branch = "add_issue_comment" ->
           add_issue_comment(owner, repo, issue_number, Arg("body"), rs)
      [] branch = "get_issue" -> get_issue(owner, repo, issue_number, rs)
      [] branch = "create_pull_request" -> create_pull_request(a, rs)
      [] branch = "get_pull_request" -> get_pull_request(owner, repo, pull_number, rs)
      [] branch = "list_pull_requests" ->
           list_pull_requests(owner, repo, Arg("state"), Arg("head"), Arg("base"),
                              Arg("sort"), Arg("direction"), page, perPage, rs)
      [] branch = "get_pull_request_files" ->
           get_pull_request_files(owner, repo, pull_number, rs)
      [] branch = "create_pull_request_review" ->
           create_pull_request_review(owner, repo, pull_number,
                                      DictWithout(a, {"owner", "repo", "pull_number"}), rs)
      [] branch = "merge_pull_request" ->
           merge_pull_request(owner, repo, pull_number,
                              DictWithout(a, {"owner", "repo", "pull_number"}), rs)
      [] branch = "get_pull_request_status" ->
           get_pull_request_status(owner, repo, pull_number, rs)
      [] branch = "update_pull_request_branch" ->
           update_pull_request_branch(owner, repo, pull_number,
                                      Arg("expected_head_sha"), rs)
      [] branch = "get_pull_request_comments" ->
           get_pull_request_comments(owner, repo, pull_number, rs)
      [] branch = "get_pull_request_reviews" ->
           get_pull_request_reviews(owner, repo, pull_number, rs)
      [] branch = "search_code" -> search_code(a, rs)
      [] branch = "search_issues" -> search_issues(a, rs)
      [] OTHER -> search_users(a, rs)

\* `return jsonify({"error": text}), 400`
DoReject(text) == [kind |-> "reject", call |-> NoCall, result |-> JStr(text), exc |-> NoExc]

\* request.json raises (werkzeug's BadRequest) on a body that is no JSON.
BadRequest == PyExc("BadRequest", "400 Bad Request: Failed to decode JSON object")

\* request_data.get("arguments", {})
ArgsOf(request_data) == DictGet(request_data, "arguments", JObj(<<>>))

\* call_tool, run with the backend's successful answers so far: what it does
\* next.
call_tool(req, rs) ==
    IF ~req.parse_ok THEN DoRaise(BadRequest)
    ELSE
      LET request_data == req.data IN
      IF ~Truthy(request_data) THEN DoReject("No request data provided")
      ELSE IF ~IsDict(request_data)
      THEN DoRaise(PyExc("AttributeError", "object has no attribute 'get'"))
      ELSE
        LET tool_name == DictGet(request_data, "name", JNull) IN
        IF ~Truthy(tool_name) THEN DoReject("Tool name is required")
        ELSE IF Branch(tool_name) = ""
        THEN DoReject("Unknown tool: " \o PyStr(tool_name))
        ELSE RunBranch(Branch(tool_name), ArgsOf(request_data), rs)

\* An HTTP response of the server: jsonify(body), status.
Http(status, body) == [status |-> status, body |-> body]

NoHttp == Http(0, JNull)

\* A handler that attaches details to every classified error, empty or not.
handle_error_always_details(outcome) ==
    CASE outcome.kind = "return" ->
           Http(200, JObj(<< <<"content",
                JArr(<< JObj(<< <<"type", JStr("text")>>,
                                <<"text", JStr(json_dumps(outcome.result))>> >>) >>)>> >>))
      [] outcome.kind = "reject" -> Http(400, JObj(<< <<"error", outcome.result>> >>))
      [] is_github_error(outcome.exc) ->
           Http(500, JObj(<< <<"error", JStr(outcome.exc.cls)>>,
                             <<"message", JStr(PyStr(outcome.exc.message))>>,
                             <<"details", outcome.exc.response>> >>))
      [] OTHER ->
           Http(500, JObj(<< <<"error", JStr("ServerError")>>,
                             <<"message", JStr(PyStr(outcome.exc.message))>> >>))

\* The handle_error decorator around call_tool: the response for what
\* call_tool did (returned a value, returned a 400, raised).
handle_error(outcome) ==
    CASE outcome.kind = "return" ->
           Http(200, JObj(<< <<"content",
                  JArr(<< JObj(<< <<"type", JStr("text")>>,
                                  <<"text", JStr(json_dumps(outcome.result))>> >>) >>)>> >>))
      [] outcome.kind = "reject" ->
           Http(400, JObj(<< <<"error", outcome.result>> >>))
      [] is_github_error(outcome.exc) ->
           Http(500, JObj(<< <<"error", JStr(outcome.exc.cls)>>,
                             <<"message", JStr(PyStr(outcome.exc.message))>> >>
                          \o (IF Truthy(outcome.exc.response)
                              THEN << <<"details", outcome.exc.response>> >>
                              ELSE <<>>)))
      [] OTHER ->
           Http(500, JObj(<< <<"error", JStr("ServerError")>>,
                             <<"message", JStr(PyStr(outcome.exc.message))>> >>))

-----------------------------------------------------------------------------
(* The requests and the backend answers the model draws from *)

\* An /api/call request: whether its body parses as JSON, and the document.
Request(parse_ok, data) == [parse_ok |-> parse_ok, data |-> data]

NoRequest == Request(FALSE, JNull)

\* The `name` members tried: none, null, empty, numbers, names the chain does
\* not know (near misses of known ones among them), and every known name.
NameInputs ==
    {<<>>} \cup
    {<< <<"name", v>> >> :
        v \in {JNull, JStr(""), JNum(0), JNum(7), JStr("unknown_tool"), JStr("get_repo"),
               JStr("get_repository_v2"), JStr("Get_Repository"), JStr("list_tools")}
              \cup {JStr(BRANCHES[i]) : i \in 1..Len(BRANCHES)}
              \cup {JStr(TOOLS[i].name) : i \in 1..Len(TOOLS)}}

FileObjects == JArr(<< JObj(<< <<"path", JStr("README.md")>>, <<"content", JStr("hi")>> >>) >>)

\* An arguments object with every parameter a tool of the catalog reads.
FullArgs ==
    JObj(<< <<"owner", JStr("a")>>, <<"repo", JStr("b")>>, <<"query", JStr("mcp")>>,
            <<"path", JStr("README.md")>>, <<"content", JStr("hi")>>,
            <<"message", JStr("add")>>, <<"branch", JStr("dev")>>,
            <<"from_branch", JStr("main")>>, <<"files", FileObjects>>,
            <<"issue_number", JNum(3)>>, <<"pull_number", JNum(4)>>,
            <<"body", JStr("say \"hi\"")>>, <<"title", JStr("t")>>,
            <<"merge_method", JStr("squash")>>, <<"perPage", JNum(5)>> >>)

\* An arguments object of a caller that names the page and the page size as
\* the operations do, and gives a pull request and overrides for it.
PagedArgs ==
    JObj(<< <<"owner", JStr("a")>>, <<"repo", JStr("b")>>, <<"query", JStr("mcp")>>,
            <<"pull_number", JNum(4)>>, <<"page", JNum(2)>>, <<"per_page", JNum(7)>>,
            <<"expected_head_sha", JStr("h1")>>, <<"commit_title", JStr("t")>> >>)

\* The `arguments` members tried: none, null, a list, the empty mapping, the
\* path identifiers alone, and the two objects above.
ArgumentInputs ==
    {<<>>} \cup
    {<< <<"arguments", v>> >> :
        v \in {JNull, JArr(<<>>), JObj(<<>>),
               JObj(<< <<"owner", JStr("a")>>, <<"repo", JStr("b")>> >>), FullArgs,
               PagedArgs}}

\* A body that is no JSON, falsy documents, a document that is no object, and
\* the objects made of a name and an arguments member.
Requests ==
    {Request(FALSE, JNull), Request(TRUE, JNull), Request(TRUE, JArr(<<>>)),
     Request(TRUE, JArr(<<JStr("get_repository")>>))}
    \cup {Request(TRUE, JObj(n \o a)) : n \in NameInputs, a \in ArgumentInputs}

StatusCodes == {200, 400, 401, 403, 404, 409, 422, 500}

Sha(str) == << <<"sha", JStr(str)>> >>

\* The bodies a backend answer may carry: none, text that is no JSON, JSON
\* that is no object, error objects (without a message, with a message that
\* is no string, with and without the words "rate limit" in several letter
\* cases), and the documents the operations read fields of.
Bodies ==
    {EmptyBody, TextBody}
    \cup {JsonBody(v) : v \in {
            JNull, JArr(<<>>), JStr("Bad Gateway"), JObj(<<>>),
            JObj(<< <<"documentation_url", JStr("https://docs.github.com")>> >>),
            JObj(<< <<"message", JNum(5)>> >>),
            JObj(<< <<"message", JNull>> >>),
            JObj(<< <<"message", JStr("Not Found")>> >>),
            JObj(<< <<"message", JStr("API rate limit exceeded")>> >>),
            JObj(<< <<"message", JStr("You have exceeded a secondary Rate Limit")>> >>),
            JObj(<< <<"message", JStr("RATE LIMIT")>> >>),
            JObj(<< <<"message", JStr("ratelimit")>> >>),
            JObj(<< <<"name", JStr("b")>>, <<"stargazers_count", JNum(5)>> >>),
            JObj(<< <<"object", JObj(Sha("c1"))>> >>),
            JObj(<< <<"head", JObj(Sha("h1"))>> >>),
            JObj(Sha("c1") \o << <<"tree", JObj(Sha("t1"))>> >>),
            JObj(<< <<"total_count", JNum(1)>>,
                    <<"items", JArr(<< JObj(<< <<"id", JNum(1)>> >>) >>)>> >>),
            JArr(<< JObj(<< <<"title", JStr("a \"quoted\" \\ title")>> >>) >>),
            JObj(<< <<"type", JStr("file")>>, <<"content", JStr("aGk=")>> >>)}}

\* The response headers tried: none, the rate-limit reset time, a Link header
\* of one link and one of two.
HeaderInputs ==
    {NoHeaders,
     [h \in {"X-RateLimit-Reset"} |-> "1700000000"],
     [h \in {"Link"} |-> "<u1>; rel=" \o DQ \o "next" \o DQ],
     [h \in {"Link"} |-> "<u2>; rel=" \o DQ \o "next" \o DQ
                          \o ", <u9>; rel=" \o DQ \o "last" \o DQ]}

\* A Link header that names a target and no relation.
LinkWithoutRel == [h \in {"Link"} |-> "<u1>"]

\* The contents answer for a file that is no text: the first bytes of a JPEG.
BinaryFile == JsonBody(JObj(<< <<"type", JStr("file")>>, <<"content", JStr("/9j/")>> >>))

\* The bodies of a page of a listing or of a search.
PageBodies ==
    {b \in Bodies : b.kind = "json" /\ (b.v.t = "arr" \/ (IsDict(b.v) /\ HasKey(b.v, "items")))}

\* The answers tried: every status with every body and header above, the
\* pages with the Link header of no relation, and the file of no text.
Responses ==
    {Response(c, b, h) : c \in StatusCodes, b \in Bodies, h \in HeaderInputs}
    \cup {Response(200, b, LinkWithoutRel) : b \in PageBodies}
    \cup {Response(200, BinaryFile, NoHeaders)}

-----------------------------------------------------------------------------
(* The state machine of one tool call *)

\* The client connections of the event streams.
Connections == {"c1", "c2"}

\* A connection no client has opened.
NoSession ==
    [kind |-> "none", pc |-> "none", disconnected |-> FALSE, server_id |-> "",
     now |-> 0, message_id |-> 0, frames |-> <<>>]

\* The requests served at the same time.
Workers == {"w1", "w2"}

\* A worker with no request in hand.
IdleWorker ==
    [pc |-> "idle", path |-> "", request |-> NoRequest, calls |-> <<>>, replies |-> <<>>,
     answers |-> <<>>, http |-> NoHttp]

\* No stream is open and no request is served beside the one in hand.
Quiet ==
    /\ sessions = [c \in Connections |-> NoSession]
    /\ clock = 0
    /\ cap = 0
    /\ workers = [w \in Workers |-> IdleWorker]
    /\ catalog = TOOLS

Init ==
    /\ Quiet
    /\ Apart
    /\ pc = "idle"
    /\ request = NoRequest
    /\ tool = ""
    /\ calls = <<>>
    /\ replies = <<>>
    /\ lastResp = NoResponse
    /\ exc = NoExc
    /\ result = JNull
    /\ http = NoHttp

\* The branch a request is routed to, "" when call_tool ends before routing.
ToolOf(req) ==
    IF req.parse_ok /\ IsDict(req.data) /\ Truthy(DictGet(req.data, "name", JNull))
    THEN Branch(DictGet(req.data, "name", JNull))
    ELSE ""

\* What one run of the handler leaves: a call in flight, or the response.
Settle(outcome) ==
    IF outcome.kind = "call"
    THEN /\ pc' = "waiting"
         /\ calls' = Append(calls, outcome.call)
         /\ UNCHANGED <<exc, result, http>>
    ELSE /\ pc' = "responded"
         /\ exc' = outcome.exc
         /\ result' = IF outcome.kind = "return" THEN outcome.result ELSE JNull
         /\ http' = handle_error(outcome)
         /\ UNCHANGED calls

\* POST /api/call arrives: call_tool runs up to its first backend call.
CallTool(req) ==
    /\ pc = "idle"
    /\ request' = req
    /\ tool' = ToolOf(req)
    /\ Settle(call_tool(req, <<>>))
    /\ UNCHANGED <<replies, lastResp, streamVars, serverVars, utilVars, gitVars>>

\* The backend answers the call in flight: handle_github_response classifies
\* the answer, and on success the operation runs on to its next call or end.
BackendAnswer(response) ==
    /\ pc = "waiting"
    /\ lastResp' = response
    /\ LET raised == handle_github_response(response, calls[Len(calls)].error_message) IN
       IF raised # NoExc
       THEN /\ Settle(DoRaise(raised))
            /\ UNCHANGED replies
       ELSE /\ replies' = Append(replies, response)
            /\ Settle(call_tool(request, Append(replies, response)))
    /\ UNCHANGED <<request, tool, streamVars, serverVars, utilVars, gitVars>>

\* The call in flight fails below HTTP: requests raises ConnectionError.
TransportFailure ==
    /\ pc = "waiting"
    /\ Settle(DoRaise(PyExc("ConnectionError", "Connection aborted")))
    /\ UNCHANGED <<request, tool, replies, lastResp, streamVars, serverVars, utilVars, gitVars>>

\* The response is sent; the handler keeps nothing for the next request.
NextRequest ==
    /\ pc = "responded"
    /\ pc' = "idle"
    /\ request' = NoRequest
    /\ tool' = ""
    /\ calls' = <<>>
    /\ replies' = <<>>
    /\ lastResp' = NoResponse
    /\ exc' = NoExc
    /\ result' = JNull
    /\ http' = NoHttp
    /\ UNCHANGED <<streamVars, serverVars, utilVars, gitVars>>

Next ==
    \/ \E req \in Requests : CallTool(req)
    \/ \E response \in Responses : BackendAnswer(response)
    \/ TransportFailure
    \/ NextRequest

Spec == Init /\ [][Next]_vars

-----------------------------------------------------------------------------
(* What the claims read of a state *)

\* The `name` member of the request in hand.
RequestName == DictGet(request.data, "name", JNull)

\* The request in hand is a non-empty JSON object: call_tool reads its name.
ObjectRequest == pc # "idle" /\ request.parse_ok /\ IsDict(request.data) /\ Truthy(request.data)

\* The names the if/elif chain of call_tool routes.
RoutedNames == {JStr(BRANCHES[i]) : i \in 1..Len(BRANCHES)}

\* The names the catalog lists.
CatalogNames == {JStr(TOOLS[i].name) : i \in 1..Len(TOOLS)}

\* The request carries a name and the chain routes it nowhere.
UnknownName == ObjectRequest /\ Truthy(RequestName) /\ RequestName \notin RoutedNames

\* call_tool answered 400 with the text given.
Rejected(text) ==
    /\ pc = "responded"
    /\ http = Http(400, JObj(<< <<"error", JStr(text)>> >>))

-----------------------------------------------------------------------------
(* C1 *)

-----------------------------------------------------------------------------
(* C2 *)

\* C2: call_tool accepts a name if and only if the TOOLS catalog lists it: a
\* request whose name is absent, empty or not in the catalog is answered with
\* a validation failure (HTTP 400), and a request whose name is in the
\* catalog is routed to an operation.
C2_AcceptsExactlyCatalog ==
    ObjectRequest =>
        ((pc = "responded" /\ http.status = 400 /\ calls = <<>>)
            <=> RequestName \notin CatalogNames)

-----------------------------------------------------------------------------
(* C3, C4, C5: the classification of a failing backend answer *)

\* The request ended on a failing backend answer: what it raised is what
\* handle_github_response raised for lastResp.
Classified == pc = "responded" /\ lastResp # NoResponse /\ ~ResponseOk(lastResp)

\* The default message the operation in flight gave handle_github_response.
DefaultMessage == calls[Len(calls)].error_message

\* Whether the answer's body parses as JSON.
BodyParses == lastResp.body.kind = "json"

\* The message of a failing answer as the contract reads it: the body's
\* message when the body is an object that holds one, the default otherwise.
AnswerMessage ==
    IF BodyParses /\ IsDict(lastResp.body.v)
    THEN DictGet(lastResp.body.v, "message", JStr(DefaultMessage))
    ELSE JStr(DefaultMessage)

\* The message speaks of a rate limit, in any letter case.
SaysRateLimit == AnswerMessage.t = "str" /\ Contains(Lower(AnswerMessage.s), "rate limit")

StatusSuffix == " (Status code: " \o ToString(lastResp.status_code) \o ")"

\* C3: a failing backend answer is classified by its status code: 400 the
\* validation kind, 401 the authentication kind, 403 without "rate limit" in
\* its message the permission kind, 404 the not-found kind, 409 the conflict
\* kind, any other failing code the generic GitHubError with the status code
\* in its message.
C3_KindByStatus ==
    (Classified /\ ~(lastResp.status_code = 403 /\ SaysRateLimit)) =>
        CASE lastResp.status_code = 400 -> exc.cls = "GitHubValidationError"
          [] lastResp.status_code = 401 -> exc.cls = "GitHubAuthenticationError"
          [] lastResp.status_code = 403 -> exc.cls = "GitHubPermissionError"
          [] lastResp.status_code = 404 -> exc.cls = "GitHubResourceNotFoundError"
          [] lastResp.status_code = 409 -> exc.cls = "GitHubConflictError"
          [] OTHER -> /\ exc.cls = "GitHubError"
                      /\ Contains(PyStr(exc.message), StatusSuffix)

\* C4: a 403 answer whose message holds "rate limit" in any letter case
\* raises GitHubRateLimitError with a reset time: the X-RateLimit-Reset
\* header's time when the header is there, the epoch when it is not.
C4_RateLimitResetTime ==
    (Classified /\ lastResp.status_code = 403 /\ SaysRateLimit) =>
        /\ exc.cls = "GitHubRateLimitError"
        /\ exc.reset_at >= 0
        /\ "X-RateLimit-Reset" \notin DOMAIN lastResp.headers => exc.reset_at = 0

\* C5: classification raises an error of the GitHubError classes for every
\* failing answer, whatever its body (none, no JSON, JSON that is no object,
\* an object without message, a message that is no string), and with a body
\* that is no JSON the error's message is the operation's default message.
C5_ClassificationNeverCrashes ==
    Classified =>
        /\ is_github_error(exc)
        /\ ~BodyParses =>
              PyStr(exc.message) \in {DefaultMessage, DefaultMessage \o StatusSuffix}

-----------------------------------------------------------------------------
(* C6 *)

\* An exception left an operation of src/operations: the chain called one
\* (with a mapping for args, or handing args on untouched) and it raised.
LeftAdapter ==
    /\ pc = "responded"
    /\ exc # NoExc
    /\ tool # ""
    /\ (IsDict(ArgsOf(request.data)) \/ tool \in PassesArgs)

\* C6: the only exceptions that leave an operation are of the GitHubError
\* classes, whatever the backend does (a failing status, a success whose
\* body lacks the fields read, a failure of the transport).
C6_OnlyClassifiedLeaveAdapter == LeftAdapter => is_github_error(exc)

-----------------------------------------------------------------------------
(* C7, C8: the failure responses *)

\* call_tool turned the request down itself: no document, no name, or a name
\* the chain does not route.
DispatcherRejection ==
    /\ pc = "responded"
    /\ request.parse_ok
    /\ \/ ~Truthy(request.data)
       \/ IsDict(request.data) /\ (~Truthy(RequestName) \/ RequestName \notin RoutedNames)

\* The parsed JSON body a classified error carries is a non-empty object.
PayloadNonEmpty == BodyParses /\ IsDict(lastResp.body.v) /\ lastResp.body.v.m # <<>>

\* The backend sent a body that is not empty: text, or JSON other than {}.
BodyNonEmpty == lastResp.body.kind # "empty" /\ lastResp.body # JsonBody(JObj(<<>>))

\* The response for an exception, but for the details member: HTTP 500, error
\* the class name of a GitHubError and "ServerError" of any other exception,
\* message the exception's text; HTTP 400 for call_tool's own rejections only.
ExceptionsAnswered ==
    pc = "responded" =>
        /\ http.status \in {200, 400, 500}
        /\ http.status = 400 <=> DispatcherRejection
        /\ http.status = 400 => exc = NoExc /\ calls = <<>>
        /\ exc # NoExc =>
              /\ http.status = 500
              /\ DictGet(http.body, "message", JNull) = JStr(PyStr(exc.message))
              /\ DictGet(http.body, "error", JNull) =
                    IF is_github_error(exc) THEN JStr(exc.cls) ELSE JStr("ServerError")
              /\ ~is_github_error(exc) => ~HasKey(http.body, "details")

\* C7 as stated: every exception raised while a call is handled becomes an
\* HTTP 500 JSON response, with error the kind's name for a classified error
\* (plus message and, when the backend body is non-empty, details) and
\* "ServerError" for any other; only call_tool's own validation failures are
\* answered 400.
C7_DetailsWhenBodyNonEmpty ==
    /\ ExceptionsAnswered
    /\ (pc = "responded" /\ is_github_error(exc)) =>
          (HasKey(http.body, "details") <=> BodyNonEmpty)

\* C7, amended: as above, with details present exactly when the backend body
\* parsed as a JSON object that is not empty, and then equal to that object; a
\* body that is no JSON is not reported.
C7_DetailsWhenPayloadNonEmpty ==
    /\ ExceptionsAnswered
    /\ (pc = "responded" /\ is_github_error(exc)) =>
          /\ HasKey(http.body, "details") <=> PayloadNonEmpty
          /\ HasKey(http.body, "details") => DictGet(http.body, "details", JNull) = lastResp.body.v

\* A 404 with a JSON object body has been answered 500 with the class name,
\* the body's message and the body as details.
C7_Witness ==
    /\ pc = "responded"
    /\ lastResp.status_code = 404
    /\ lastResp.body = JsonBody(JObj(<< <<"message", JStr("Not Found")>> >>))
    /\ http = Http(500, JObj(<< <<"error", JStr("GitHubResourceNotFoundError")>>,
                                <<"message", JStr("Not Found")>>,
                                <<"details", JObj(<< <<"message", JStr("Not Found")>> >>)>> >>))

\* The names of the error kinds.
KindNames == {"ValidationError", "AuthenticationError", "PermissionError", "RateLimitError",
              "ResourceNotFoundError", "ConflictError", "GitHubError", "ServerError"}

\* C8: every failure response of a tool call is a JSON object with an error
\* member holding the name of an error kind (as the taxonomy or as the code's
\* classes spell it) and a message member.
C8_FailureHasErrorAndMessage ==
    (pc = "responded" /\ http.status # 200) =>
        /\ IsDict(http.body)
        /\ HasKey(http.body, "message")
        /\ \E k \in KindNames :
              DictGet(http.body, "error", JNull) \in {JStr(k), JStr("GitHub" \o k)}

-----------------------------------------------------------------------------
(* C9 *)

\* What call_tool does first with the request in hand, had its arguments
\* member been the empty mapping.
WithEmptyArguments ==
    call_tool(Request(TRUE, DictSet(request.data, "arguments", JObj(<<>>))), <<>>)

\* C9: a request whose arguments member is absent or null is processed like
\* the same request with arguments {}: the same first backend call, or the
\* same response without one.
C9_MissingArgumentsAsEmpty ==
    (ObjectRequest /\ DictGet(request.data, "arguments", JNull) = JNull) =>
        IF WithEmptyArguments.kind = "call"
        THEN calls # <<>> /\ calls[1] = WithEmptyArguments.call
        ELSE calls = <<>> /\ http = handle_error(WithEmptyArguments)

-----------------------------------------------------------------------------
(* C10 *)

Succeeded == pc = "responded" /\ http.status = 200

\* The content member of the response.
Content == DictGet(http.body, "content", JNull)

\* C10: on success the response holds a content list of exactly one block, of
\* type "text", whose text parsed as JSON is the operation's result, which for
\* get_repository is the backend's JSON body; the text is a function of the
\* result alone.
C10_OneTextBlockOfResult ==
    Succeeded =>
        /\ exc = NoExc
        /\ Len(http.body.m) = 1
        /\ Content.t = "arr"
        /\ Len(Content.m) = 1
        /\ LET block == Content.m[1][2] IN
              /\ IsDict(block)
              /\ Len(block.m) = 2
              /\ DictGet(block, "type", JNull) = JStr("text")
              /\ DictGet(block, "text", JNull).t = "str"
              /\ json_loads(DictGet(block, "text", JNull).s) = result
        /\ tool = "get_repository" => (BodyParses /\ result = lastResp.body.v)

\* get_repository a/b, answered 200 with the repository, has been answered
\* with the repository's pretty-printed JSON.
C10_Witness ==
    /\ Succeeded
    /\ tool = "get_repository"
    /\ lastResp.body = JsonBody(JObj(<< <<"name", JStr("b")>>, <<"stargazers_count", JNum(5)>> >>))
    /\ Content.m[1][2] =
          JObj(<< <<"type", JStr("text")>>,
                  <<"text", JStr("{" \o NL \o "  " \o DQ \o "name" \o DQ \o ": " \o DQ \o "b" \o DQ
                                 \o "," \o NL \o "  " \o DQ \o "stargazers_count" \o DQ \o ": 5"
                                 \o NL \o "}")>> >>)

-----------------------------------------------------------------------------
(* C11, C12: the operations of several backend calls *)

\* The argument of the request in hand, as the branch reads it.
Arg(key) == PyStr(DictGet(ArgsOf(request.data), key, JNull))

\* The URL prefix of the repository the request names.
ArgRepoUrl == GITHUB_API_URL \o "/repos/" \o Arg("owner") \o "/" \o Arg("repo")

StartsWith(str, prefix) == Slice(str, 1, Len(prefix)) = prefix

\* The call is step k of the sequence read ref, read commit, create tree,
\* create commit, update ref, on the branch given.
GitStep(call, k, branch) ==
    CASE k = 1 -> call.method = "GET"
                  /\ call.url = ArgRepoUrl \o "/git/refs/heads/" \o branch
      [] k = 2 -> call.method = "GET"
                  /\ StartsWith(call.url, ArgRepoUrl \o "/git/commits/")
      [] k = 3 -> call.method = "POST" /\ call.url = ArgRepoUrl \o "/git/trees"
      [] k = 4 -> call.method = "POST" /\ call.url = ArgRepoUrl \o "/git/commits"
      [] k = 5 -> call.method = "PATCH"
                  /\ call.url = ArgRepoUrl \o "/git/refs/heads/" \o branch
      [] OTHER -> FALSE

\* The calls issued so far are the first steps of the sequence, in order and
\* once each, and each but the last has been answered with success.
GitStepsInOrder(branch) ==
    /\ \A k \in 1..Len(calls) : GitStep(calls[k], k, branch)
    /\ Len(replies) <= Len(calls)
    /\ Len(calls) <= Len(replies) + 1

\* The calls push_files has issued are steps 1..k of its sequence; a failing
\* answer to step k ends it there.
PushFilesAborts ==
    tool = "push_files" =>
        /\ GitStepsInOrder(Arg("branch"))
        /\ Classified => (Len(calls) = Len(replies) + 1 /\ exc # NoExc /\ http.status = 500)
        /\ Succeeded => Len(calls) = 5 /\ Len(replies) = 5

\* C11: push_files issues read ref, read commit, create tree, create commit,
\* update ref in this order, each at most once; when step k fails exactly
\* steps 1..k have been issued, none after it, and the error raised is the
\* classified failure of step k; a failing ref update is never answered with
\* the success message.
C11_PushFilesSequence ==
    /\ PushFilesAborts
    /\ (tool = "push_files" /\ Classified) =>
          /\ is_github_error(exc)
          /\ DictGet(http.body, "error", JNull) = JStr(exc.cls)

\* The sha create_branch_from_ref read from the answer to its first call.
SourceSha == DictGet(DictGet(replies[1].body.v, "object", JNull), "sha", JNull)

\* C12 as stated: create_branch performs the sequence read ref, read commit,
\* build tree, create commit, update ref, and ends at the first failing step.
C12_FiveStepSequence ==
    tool = "create_branch" =>
        /\ \A k \in 1..Len(calls) :
              GitStep(calls[k], k, IF k = 5 THEN Arg("branch") ELSE Arg("from_branch"))
        /\ Len(calls) <= Len(replies) + 1
        /\ Classified => Len(calls) = Len(replies) + 1 /\ exc # NoExc
        /\ Succeeded => Len(calls) = 5

\* C12, amended: create_branch performs two dependent calls, read the source
\* ref (GET git/refs/heads/<from_branch>) and create the new ref (POST
\* git/refs with the sha read), each at most once, and ends at the first
\* failing step; no commit is read and no tree or commit is created.
C12_ReadRefThenCreateRef ==
    tool = "create_branch" =>
        /\ Len(calls) <= 2
        /\ Len(replies) <= Len(calls)
        /\ Len(calls) <= Len(replies) + 1
        /\ Len(calls) >= 1 =>
              /\ calls[1].method = "GET"
              /\ calls[1].url = ArgRepoUrl \o "/git/refs/heads/" \o Arg("from_branch")
        /\ Len(calls) = 2 =>
              /\ calls[2].method = "POST"
              /\ calls[2].url = ArgRepoUrl \o "/git/refs"
              /\ calls[2].data = JObj(<< <<"ref", JStr("refs/heads/" \o Arg("branch"))>>,
                                         <<"sha", SourceSha>> >>)
        /\ Classified => (Len(calls) = Len(replies) + 1 /\ exc # NoExc /\ http.status = 500)
        /\ Succeeded =>
              /\ Len(calls) = 2
              /\ DictGet(result, "sha", JNull) = SourceSha
              /\ DictGet(result, "name", JNull) = DictGet(ArgsOf(request.data), "branch", JNull)

\* Branch dev has been created from main after two calls.
C12_Witness ==
    /\ tool = "create_branch"
    /\ Succeeded
    /\ Len(calls) = 2
    /\ calls[1].url = "https://api.github.com/repos/a/b/git/refs/heads/main"
    /\ calls[2].data = JObj(<< <<"ref", JStr("refs/heads/dev")>>, <<"sha", JStr("c1")>> >>)

-----------------------------------------------------------------------------
(* C20 *)

\* The tools whose result is a list with pagination.
ListTools == {"list_commits", "list_issues", "list_pull_requests", "search_repositories",
              "search_code", "search_issues", "search_users"}

\* The Link header of the last answer, None without one.
LinkHeader == HeadersGet(lastResp.headers, "Link", JNull)

\* The links member of the result's pagination, the empty mapping without one.
ResultLinks == DictGet(DictGet(result, "pagination", JNull), "links", JObj(<<>>))

\* C20: the pagination.links of a list tool's result is the mapping from
\* relation to URL parsed from the Link header of the backend's answer (no
\* links member when the header gives none); the header <u1>; rel="next"
\* gives {"next": "u1"}.
C20_LinksFromLinkHeader ==
    (Succeeded /\ tool \in ListTools) =>
        /\ ResultLinks = parse_link_header(LinkHeader)
        /\ HasKey(DictGet(result, "pagination", JNull), "links") <=> ResultLinks.m # <<>>
        /\ LinkHeader = JNull => ResultLinks = JObj(<<>>)
        /\ LinkHeader = JStr("<u1>; rel=" \o DQ \o "next" \o DQ) =>
              ResultLinks = JObj(<< <<"next", JStr("u1")>> >>)
        /\ LinkHeader = JStr("<u2>; rel=" \o DQ \o "next" \o DQ
                             \o ", <u9>; rel=" \o DQ \o "last" \o DQ) =>
              ResultLinks = JObj(<< <<"next", JStr("u2")>>, <<"last", JStr("u9")>> >>)

\* list_issues of a/b, answered with the Link header <u1>; rel="next", has
\* returned the links {"next": "u1"}.
C20_Witness ==
    /\ Succeeded
    /\ tool = "list_issues"
    /\ Arg("owner") = "a"
    /\ LinkHeader = JStr("<u1>; rel=" \o DQ \o "next" \o DQ)
    /\ DictGet(result, "pagination", JNull) =
          JObj(<< <<"page", JNum(1)>>, <<"per_page", JNum(30)>>,
                  <<"links", JObj(<< <<"next", JStr("u1")>> >>)>> >>)

-----------------------------------------------------------------------------
(* The event streams of server.py: f-strings and frames *)

FStringError == [ok |-> FALSE, text |-> ""]

\* The position of the first brace of str at or after p, 0 without one.
NextBrace(str, p) ==
    IF \A i \in p..Len(str) : CharAt(str, i) \notin {"{", "}"} THEN 0
    ELSE CHOOSE i \in p..Len(str) :
            /\ CharAt(str, i) \in {"{", "}"}
            /\ \A j \in p..(i - 1) : CharAt(str, j) \notin {"{", "}"}

\* The value of an f-string: "{{" and "}}" stand for one brace, "{name}" for
\* the value of name in env, and a "}" that is neither is the error
\* "f-string: single '}' is not allowed".
FString(template, env, p, acc) ==
    LET format[at \in Nat \X Nat \X STRING] ==
            \* at = <<position, the next brace from it, the text so far>>
            LET b == at[2]
                c == CharAt(template, b)
                text == at[3] \o Slice(template, at[1], b - 1)
                q == Find(template, "}", b + 1)
            IN
            IF b = 0
            THEN [ok |-> TRUE, text |-> at[3] \o Slice(template, at[1], Len(template))]
            ELSE IF CharAt(template, b + 1) = c
            THEN format[<<b + 2, NextBrace(template, b + 2), text \o c>>]
            ELSE IF c = "}" THEN FStringError
            ELSE IF q = 0 \/ Slice(template, b + 1, q - 1) \notin DOMAIN env
            THEN FStringError
            ELSE format[<<q + 1, NextBrace(template, q + 1),
                          text \o env[Slice(template, b + 1, q - 1)]>>]
    IN format[<<p, NextBrace(template, p), acc>>]

\* Whether Python compiles the f-string: its braces pair up.
RECURSIVE FStringCompiles(_, _)
FStringCompiles(template, p) ==
    LET b == NextBrace(template, p) IN
    IF b = 0 THEN TRUE
    ELSE IF CharAt(template, b + 1) = CharAt(template, b)
    THEN FStringCompiles(template, b + 2)
    ELSE /\ CharAt(template, b) = "{"
         /\ Find(template, "}", b + 1) # 0
         /\ FStringCompiles(template, Find(template, "}", b + 1) + 1)

(* generate_mcp_message_stream: the f-strings of lines 454, 457 and 465 *)

OpenTemplate ==
    "event: message\ndata: {{\"jsonrpc\":\"2.0\",\"method\":\"open\",\"id\":\"{server_id}\",\"params\":{{\"time\":{now}}}}}\n\n"

ReadyTemplate ==
    "event: message\ndata: {{\"jsonrpc\":\"2.0\",\"method\":\"ready\",\"id\":\"{server_id}-ready\",\"params\":{{\"time\":{now}}}}}\n\n"

\* A ping frame whose id has no counter in it.
PingTemplateNoCounter ==
    "event: message\ndata: {{\"jsonrpc\":\"2.0\",\"method\":\"ping\",\"id\":\"ping\",\"params\":{{\"time\":{now}}}}}\n\n"

PingTemplate ==
    "event: message\ndata: {{\"jsonrpc\":\"2.0\",\"method\":\"ping\",\"id\":\"ping-{message_id}\",\"params\":{{\"time\":{now}}}}}\n\n"

(* repo_events.event_stream: the f-strings of lines 552, 553, 565 and 569 *)

RepoOpenTemplate ==
    "event: message\ndata: {{\"jsonrpc\":\"2.0\",\"method\":\"open\",\"id\":\"{server_id}\",\"params\":{{\"time\":{now}}}}}\n\n"

RepoReadyTemplate ==
    "event: message\ndata: {{\"jsonrpc\":\"2.0\",\"method\":\"ready\",\"id\":\"{server_id}-ready\",\"params\":{{\"time\":{now},\"repository\":\"{owner}/{repo}\"}}}}}\n\n"

RepoUpdateTemplate ==
    "event: message\ndata: {{\"jsonrpc\":\"2.0\",\"method\":\"repo_update\",\"id\":\"update-{message_id}\",\"params\":{{\"time\":{now},\"repository\":\"{repo_info['name']}\",\"stars\":{repo_info.get('stargazers_count', 0)},\"forks\":{repo_info.get('forks_count', 0)}}}}}\n\n"

RepoErrorTemplate ==
    "event: message\ndata: {{\"jsonrpc\":\"2.0\",\"method\":\"error\",\"id\":\"error-{message_id}\",\"params\":{{\"time\":{now},\"message\":\"{error_message}\"}}}}}\n\n"

\* Whether Python compiles a function holding these f-strings.
Compiles(templates) == \A i \in 1..Len(templates) : FStringCompiles(templates[i], 1)

\* The f-strings of generate_mcp_message_stream and of event_stream.
StreamTemplates == <<OpenTemplate, ReadyTemplate, PingTemplate>>

RepoStreamTemplates ==
    <<RepoOpenTemplate, RepoReadyTemplate, RepoUpdateTemplate, RepoErrorTemplate>>

\* The locals an f-string of a generator reads, formatted.
FrameEnv(server_id, now, message_id) ==
    [name \in {"server_id", "now", "message_id"} |->
        CASE name = "server_id" -> server_id
          [] name = "now" -> ToString(now)
          [] OTHER -> ToString(message_id)]

\* The frame a yield of generate_mcp_message_stream gives.
Frame(template, server_id, now, message_id) ==
    FString(template, FrameEnv(server_id, now, message_id), 1, "")

\* The JSON document of a frame: what follows "data: " up to the blank line.
FrameData(frame) ==
    IF StartsWith(frame, "event: message\ndata: ")
       /\ Slice(frame, Len(frame) - 1, Len(frame)) = "\n\n"
    THEN json_loads(Slice(frame, Len("event: message\ndata: ") + 1, Len(frame) - 2))
    ELSE JErr

FrameMethod(frame) == DictGet(FrameData(frame), "method", JNull)

FrameId(frame) == DictGet(FrameData(frame), "id", JNull)

FrameTime(frame) == DictGet(DictGet(FrameData(frame), "params", JNull), "time", JNull)

-----------------------------------------------------------------------------
(* The state machine of the event streams *)

MaxPings == 1

LongPings == 10

MaxClock == 1

\* str(uuid.uuid4()), cut short: hexadecimal digits and hyphens.
ServerIds == {"0a1b-4c2d", "f00d-4e3f"}

\* The runs explored: two clients with short streams, or one with a long one.
Runs == {[clients |-> {"c1", "c2"}, pings |-> MaxPings],
         [clients |-> {"c1"}, pings |-> LongPings]}

StreamInit ==
    /\ pc = "idle"
    /\ request = NoRequest
    /\ tool = ""
    /\ calls = <<>>
    /\ replies = <<>>
    /\ lastResp = NoResponse
    /\ exc = NoExc
    /\ result = JNull
    /\ http = NoHttp
    /\ workers = [w \in Workers |-> IdleWorker]
    /\ catalog = TOOLS
    /\ Apart
    /\ clock = 0
    /\ \E run \in Runs :
          /\ sessions = [c \in run.clients |-> NoSession]
          /\ cap = run.pings

\* A generator whose locals are those of another one too: every generator
\* counts with the largest message_id of all.
LocalsShared(ss, c) ==
    [ss[c] EXCEPT !.message_id =
        CHOOSE m \in {ss[d].message_id : d \in DOMAIN ss} :
            \A d \in DOMAIN ss : ss[d].message_id <= m]

\* The locals of the generator serving connection c: its own frame.
LocalsOf(ss, c) == ss[c]

\* A loop that ends after its first round.
WhileOnce(message_id) == message_id < 2

\* while True
WhileTrue(message_id) == TRUE

\* GET /message/stream (or /messages, /sse, /events, /api/events): the
\* response wraps a generator that has not run yet.
Connect(c) ==
    /\ c \in DOMAIN sessions
    /\ sessions[c].pc = "none"
    /\ sessions' = [sessions EXCEPT ![c] = [NoSession EXCEPT !.kind = "generic",
                                                             !.pc = "opening"]]
    /\ UNCHANGED <<clock, cap, dispatchVars, serverVars, utilVars, gitVars>>

\* GET /api/repos/<owner>/<repo>/events: event_stream holds f-strings Python
\* does not compile (lines 553 and 569), so no generator comes to be. Python
\* compiles a module whole; the fault is held to the function it is in.
RepoConnect(c) ==
    /\ c \in DOMAIN sessions
    /\ sessions[c].pc = "none"
    /\ sessions' = [sessions EXCEPT ![c] =
          [NoSession EXCEPT !.kind = "repo",
                            !.pc = IF Compiles(RepoStreamTemplates) THEN "opening"
                                   ELSE "refused"]]
    /\ UNCHANGED <<clock, cap, dispatchVars, serverVars, utilVars, gitVars>>

\* The generator starts: server_id (uuid4 gives an id no session has had),
\* now, and the first yield.
EmitOpen(c, server_id) ==
    /\ c \in DOMAIN sessions
    /\ sessions[c].kind = "generic"
    /\ sessions[c].pc = "opening"
    /\ \A other \in DOMAIN sessions : sessions[other].server_id # server_id
    /\ LET frame == Frame(OpenTemplate, server_id, clock, 0) IN
       /\ frame.ok
       /\ sessions' = [sessions EXCEPT ![c] =
             [LocalsOf(sessions, c) EXCEPT !.pc = "open", !.server_id = server_id,
                                           !.now = clock,
                                           !.frames = Append(@, frame.text)]]
    /\ UNCHANGED <<clock, cap, dispatchVars, serverVars, utilVars, gitVars>>

\* The second yield, with the same now.
EmitReady(c) ==
    /\ c \in DOMAIN sessions
    /\ sessions[c].kind = "generic"
    /\ sessions[c].pc = "open"
    /\ LET s == LocalsOf(sessions, c)
           frame == Frame(ReadyTemplate, s.server_id, s.now, 0)
       IN
       /\ frame.ok
       /\ sessions' = [sessions EXCEPT ![c] =
             [s EXCEPT !.pc = "ready", !.frames = Append(@, frame.text)]]
    /\ UNCHANGED <<clock, cap, dispatchVars, serverVars, utilVars, gitVars>>

\* One round of the loop up to its yield: message_id = 1 on entry, the test
\* of the while, now, the ping frame.
EmitPing(c) ==
    /\ c \in DOMAIN sessions
    /\ sessions[c].kind = "generic"
    /\ sessions[c].pc \in {"ready", "sleeping"}
    /\ LET s == LocalsOf(sessions, c)
           message_id == IF sessions[c].pc = "ready" THEN 1 ELSE s.message_id
           frame == Frame(PingTemplate, s.server_id, clock, message_id)
       IN
       /\ message_id <= cap
       /\ frame.ok
       /\ sessions' = [sessions EXCEPT ![c] =
             IF WhileTrue(message_id)
             THEN [s EXCEPT !.pc = "streaming", !.now = clock, !.message_id = message_id,
                            !.frames = Append(@, frame.text)]
             ELSE [s EXCEPT !.pc = "closed"]]
    /\ UNCHANGED <<clock, cap, dispatchVars, serverVars, utilVars, gitVars>>

\* The generator is resumed after its ping: message_id += 1, time.sleep(10).
Sleep(c) ==
    /\ c \in DOMAIN sessions
    /\ sessions[c].kind = "generic"
    /\ sessions[c].pc = "streaming"
    /\ sessions' = [sessions EXCEPT ![c] =
          [LocalsOf(sessions, c) EXCEPT !.pc = "sleeping",
                                        !.message_id = LocalsOf(sessions, c).message_id + 1]]
    /\ UNCHANGED <<clock, cap, dispatchVars, serverVars, utilVars, gitVars>>

\* The client goes away: the server closes the generator, which is waiting
\* at a yield (GeneratorExit there) or has not run yet.
Disconnect(c) ==
    /\ c \in DOMAIN sessions
    /\ sessions[c].pc \in {"opening", "open", "ready", "streaming"}
    /\ sessions' = [sessions EXCEPT ![c] =
          [sessions[c] EXCEPT !.pc = "closed", !.disconnected = TRUE]]
    /\ UNCHANGED <<clock, cap, dispatchVars, serverVars, utilVars, gitVars>>

\* Time passes.
Tick ==
    /\ clock < MaxClock
    /\ clock' = clock + 1
    /\ UNCHANGED <<sessions, cap, dispatchVars, serverVars, utilVars, gitVars>>

StreamNext ==
    \/ \E c \in Connections : Connect(c)
    \/ \E c \in Connections : RepoConnect(c)
    \/ \E c \in Connections, server_id \in ServerIds : EmitOpen(c, server_id)
    \/ \E c \in Connections : EmitReady(c)
    \/ \E c \in Connections : EmitPing(c)
    \/ \E c \in Connections : Sleep(c)
    \/ \E c \in Connections : Disconnect(c)
    \/ Tick

StreamSpec == StreamInit /\ [][StreamNext]_vars

\* The server keeps resuming the generator of a client that stays, and
\* time.sleep returns.
StreamFairness ==
    \A c \in Connections :
        /\ WF_vars(\E server_id \in ServerIds : EmitOpen(c, server_id))
        /\ WF_vars(EmitReady(c))
        /\ WF_vars(EmitPing(c))
        /\ WF_vars(Sleep(c))

\* The long run: one client, LongPings rounds of the loop.
LongRunInit == StreamInit /\ cap = LongPings

FairStreamSpec == LongRunInit /\ [][StreamNext]_vars /\ StreamFairness

-----------------------------------------------------------------------------
(* What the claims read of a stream *)

\* The state of the session of a connection: OPENING until the handshake is
\* out, READY after it, STREAMING in the loop, CLOSED; NONE while there is no
\* session (no client yet, or the request was refused).
StateOf(s) ==
    CASE s.pc \in {"opening", "open"} -> "OPENING"
      [] s.pc = "ready" -> "READY"
      [] s.pc \in {"streaming", "sleeping"} -> "STREAMING"
      [] s.pc = "closed" -> "CLOSED"
      [] OTHER -> "NONE"

Rank(state) ==
    CASE state = "OPENING" -> 1
      [] state = "READY" -> 2
      [] state = "STREAMING" -> 3
      [] state = "CLOSED" -> 4
      [] OTHER -> 0

\* The frames after the handshake.
PingsEmitted(c) ==
    IF c \in DOMAIN sessions /\ Len(sessions[c].frames) > 2
    THEN Len(sessions[c].frames) - 2 ELSE 0

\* The frames of s begin with one open frame and one ready frame, with the
\* session id and a timestamp, and no other frame is an open or ready frame.
HandshakeFirst(s) ==
    /\ s.pc \in {"ready", "streaming", "sleeping"} => Len(s.frames) >= 2
    /\ Len(s.frames) >= 1 =>
          /\ FrameMethod(s.frames[1]) = JStr("open")
          /\ FrameId(s.frames[1]) = JStr(s.server_id)
          /\ FrameTime(s.frames[1]).t = "num"
    /\ Len(s.frames) >= 2 =>
          /\ FrameMethod(s.frames[2]) = JStr("ready")
          /\ FrameId(s.frames[2]) = JStr(s.server_id \o "-ready")
          /\ FrameTime(s.frames[2]) = FrameTime(s.frames[1])
    /\ \A i \in 3..Len(s.frames) :
          FrameMethod(s.frames[i]) \notin {JStr("open"), JStr("ready")}

\* str < str of Python: by code points, a proper prefix first.
RECURSIVE StrLess(_, _)
StrLess(a, b) ==
    IF b = "" THEN FALSE
    ELSE IF a = "" THEN TRUE
    ELSE IF Head(a) = Head(b) THEN StrLess(Tail(a), Tail(b))
    ELSE Ord(Head(a)) < Ord(Head(b))

-----------------------------------------------------------------------------
(* C13, C14: the repository stream *)

\* C13: on every streaming connection, generic or of a repository, the
\* handshake is emitted whatever happens: the first two frames are one open
\* frame and one ready frame with the session id and a millisecond
\* timestamp, before any other frame.
C13_HandshakeOnEveryConnection ==
    \A c \in DOMAIN sessions :
        sessions[c].kind # "none" =>
            /\ sessions[c].pc # "refused"
            /\ HandshakeFirst(sessions[c])

\* C14: a repository stream emits one frame per poll, repo_update or error,
\* and a failed fetch never closes it: it stays open until the client leaves.
C14_OneFramePerPoll ==
    \A c \in DOMAIN sessions :
        sessions[c].kind = "repo" =>
            /\ StateOf(sessions[c]) \in {"OPENING", "READY", "STREAMING", "CLOSED"}
            /\ StateOf(sessions[c]) = "CLOSED" => sessions[c].disconnected
            /\ \A i \in 3..Len(sessions[c].frames) :
                  FrameMethod(sessions[c].frames[i]) \in {JStr("repo_update"), JStr("error")}

-----------------------------------------------------------------------------
(* C15 *)

\* C15: a session moves through OPENING, READY, STREAMING, CLOSED in this
\* order, one state at a time but for the client's leaving, and it is closed
\* only by the client's leaving: nothing the server does closes a stream.
C15_ClosedOnlyByClient ==
    [][\A c \in DOMAIN sessions :
          LET before == StateOf(sessions[c])
              after == StateOf(sessions'[c])
          IN
          /\ Rank(after) >= Rank(before)
          /\ Rank(after) > Rank(before) + 1 => after = "CLOSED"
          /\ (after = "CLOSED" /\ before # "CLOSED") =>
                (sessions'[c].disconnected /\ ~sessions[c].disconnected)]_vars

\* A session that went through the handshake and two pings has been closed
\* by its client.
C15_Witness ==
    /\ sessions["c1"].pc = "closed"
    /\ sessions["c1"].disconnected
    /\ Len(sessions["c1"].frames) = 4

-----------------------------------------------------------------------------
(* C16 *)

\* C16: on a generic stream whose client stays (the stream of the long
\* run), after the ping with message id n (the n-th frame after the
\* handshake) the ping with message id n + 1 is emitted in the end.
C16_PingsKeepComing ==
    \A n \in 1..LongPings :
        (n < cap /\ PingsEmitted("c1") = n)
        ~> (sessions["c1"].disconnected \/ PingsEmitted("c1") = n + 1)

\* The tenth ping of a stream is out and its client is still there.
C16_Witness ==
    /\ cap >= 10
    /\ ~sessions["c1"].disconnected
    /\ PingsEmitted("c1") = 10
    /\ FrameId(sessions["c1"].frames[12]) = JStr("ping-10")

-----------------------------------------------------------------------------
(* C17 *)

\* The id of the i-th frame of a session, as a string.
IdAt(s, i) == FrameId(s.frames[i]).s

\* C17 as stated: within a session every frame's id is, as a string, greater
\* than the id of every frame emitted before it.
C17_IdsIncreaseAsStrings ==
    \A c \in DOMAIN sessions :
        \A j \in 1..Len(sessions[c].frames) : \A i \in 1..(j - 1) :
            /\ FrameId(sessions[c].frames[i]).t = "str"
            /\ FrameId(sessions[c].frames[j]).t = "str"
            /\ StrLess(IdAt(sessions[c], i), IdAt(sessions[c], j))

\* C17, amended: within a session no two frames carry the same id: the
\* handshake carries the session id and the session id with -ready, and the
\* n-th frame after it carries the counter n, which starts at 1 in every
\* session and grows by one with each frame.
C17_IdsDistinctCounterFromOne ==
    \A c \in DOMAIN sessions :
        LET s == sessions[c] IN
        /\ \A i \in 1..Len(s.frames) : FrameId(s.frames[i]).t = "str"
        /\ Cardinality({IdAt(s, i) : i \in 1..Len(s.frames)}) = Len(s.frames)
        /\ Len(s.frames) >= 1 => IdAt(s, 1) = s.server_id
        /\ Len(s.frames) >= 2 => IdAt(s, 2) = s.server_id \o "-ready"
        /\ \A i \in 3..Len(s.frames) : IdAt(s, i) = "ping-" \o ToString(i - 2)

\* Two sessions side by side, each with its own first ping.
C17_Witness ==
    /\ DOMAIN sessions = {"c1", "c2"}
    /\ sessions["c1"].server_id # sessions["c2"].server_id
    /\ Len(sessions["c1"].frames) = 3
    /\ Len(sessions["c2"].frames) = 3
    /\ IdAt(sessions["c1"], 3) = "ping-1"
    /\ IdAt(sessions["c2"], 3) = "ping-1"

-----------------------------------------------------------------------------
(* C18 *)

\* The f-string of the i-th yield of generate_mcp_message_stream.
TemplateAt(i) ==
    IF i = 1 THEN OpenTemplate ELSE IF i = 2 THEN ReadyTemplate ELSE PingTemplate

\* The frames of s are those its generator emits when it runs alone with
\* the same session id and the same readings of the clock: open, ready, and
\* the pings with the message ids 1, 2, 3, ...; its locals are its own.
RunsAsAlone(s) ==
    /\ \A i \in 1..Len(s.frames) :
          /\ FrameTime(s.frames[i]).t = "num"
          /\ s.frames[i] =
                Frame(TemplateAt(i), s.server_id, FrameTime(s.frames[i]).n,
                      IF i > 2 THEN i - 2 ELSE 0).text
    /\ s.pc \in {"none", "opening"} => s.frames = <<>> /\ s.message_id = 0
    /\ s.pc = "open" => Len(s.frames) = 1 /\ s.message_id = 0
    /\ s.pc = "ready" => Len(s.frames) = 2 /\ s.message_id = 0
    /\ s.pc = "streaming" => s.message_id = Len(s.frames) - 2
    /\ s.pc = "sleeping" => s.message_id = Len(s.frames) - 1

\* A step of one session leaves every other session as it was.
OneSessionSteps ==
    \A c, other \in DOMAIN sessions :
        (c # other /\ sessions'[c] # sessions[c]) => sessions'[other] = sessions[other]

\* C18: sessions streaming side by side are independent: however their
\* loops interleave, each emits the frames it would emit alone, and no step
\* of one reads or writes the state of another.
C18_SessionsIndependent ==
    /\ [](\A c \in DOMAIN sessions :
            sessions[c].kind = "generic" => RunsAsAlone(sessions[c]))
    /\ [][OneSessionSteps]_vars

\* Two sessions under way at once: one past its first ping and resumed, the
\* other between its handshake and its first ping.
C18_Witness ==
    /\ DOMAIN sessions = {"c1", "c2"}
    /\ sessions["c1"].pc = "sleeping"
    /\ sessions["c1"].message_id = 2
    /\ Len(sessions["c1"].frames) = 3
    /\ sessions["c2"].pc = "ready"
    /\ Len(sessions["c2"].frames) = 2

-----------------------------------------------------------------------------
(* The server with several requests in hand: one worker thread per request,
   each running list_tools or call_tool, beside the event streams *)

\* The requests and the backend answers tried side by side.
ServerRequests ==
    {Request(TRUE, JObj(<< <<"name", JStr("no_such_tool")>> >>)),
     Request(TRUE, JObj(<< <<"name", JStr("create_branch")>>, <<"arguments", FullArgs>> >>)),
     Request(TRUE, JObj(<< <<"name", JStr("list_issues")>>, <<"arguments", FullArgs>> >>))}

ServerResponses ==
    {Response(200, JsonBody(JObj(<< <<"object", JObj(Sha("c1"))>> >>)), NoHeaders),
     Response(200, JsonBody(JArr(<<>>)), [h \in {"Link"} |-> "<u1>; rel=" \o DQ \o "next" \o DQ]),
     Response(404, JsonBody(JObj(<< <<"message", JStr("Not Found")>> >>)), NoHeaders)}

\* What a backend call of a worker met: an answer, or a failure below HTTP.
Answered(response) == [kind |-> "response", response |-> response]

Unanswered == [kind |-> "failure", response |-> NoResponse]

ConnectionAborted == PyExc("ConnectionError", "Connection aborted")

\* jsonify({"tools": TOOLS}).
ToolsDocument(tools) ==
    JObj(<< <<"tools",
              JArr([i \in 1..Len(tools) |->
                      JObj(<< <<"name", JStr(tools[i].name)>>,
                              <<"description", JStr(tools[i].description)>> >>)])>> >>)

\* The locals of another handler put in the place of a handler's own.
HandlerLocalsShared(ws, w) ==
    LET longest == CHOOSE v \in DOMAIN ws :
                      \A u \in DOMAIN ws : Len(ws[u].replies) <= Len(ws[v].replies)
    IN [ws[w] EXCEPT !.replies = ws[longest].replies]

\* The locals of the handler a worker runs: its own frame, nothing else.
HandlerLocals(ws, w) == ws[w]

\* What one run of the handler leaves of a worker.
WorkerSettle(me, outcome) ==
    IF outcome.kind = "call"
    THEN [me EXCEPT !.pc = "waiting", !.calls = Append(@, outcome.call)]
    ELSE [me EXCEPT !.pc = "responded", !.http = handle_error(outcome)]

\* POST /api/call arrives at a free worker.
Receive(w, req) ==
    /\ workers[w].pc = "idle"
    /\ workers' = [workers EXCEPT ![w] =
          WorkerSettle([IdleWorker EXCEPT !.path = "/api/call", !.request = req],
                       call_tool(req, <<>>))]
    /\ UNCHANGED <<catalog, dispatchVars, streamVars, utilVars, gitVars>>

\* GET /api/tools arrives at a free worker: list_tools reads the catalog.
ReceiveListTools(w) ==
    /\ workers[w].pc = "idle"
    /\ workers' = [workers EXCEPT ![w] =
          [IdleWorker EXCEPT !.pc = "responded", !.path = "/api/tools",
                             !.http = Http(200, ToolsDocument(catalog))]]
    /\ UNCHANGED <<catalog, dispatchVars, streamVars, utilVars, gitVars>>

\* The backend answers the call a worker has in flight.
Answer(w, response) ==
    /\ workers[w].pc = "waiting"
    /\ LET me == HandlerLocals(workers, w)
           raised == handle_github_response(response, me.calls[Len(me.calls)].error_message)
           heard == [me EXCEPT !.answers = Append(@, Answered(response))]
       IN
       workers' = [workers EXCEPT ![w] =
          IF raised # NoExc
          THEN WorkerSettle(heard, DoRaise(raised))
          ELSE WorkerSettle([heard EXCEPT !.replies = Append(@, response)],
                            call_tool(me.request, Append(me.replies, response)))]
    /\ UNCHANGED <<catalog, dispatchVars, streamVars, utilVars, gitVars>>

\* The call a worker has in flight fails below HTTP.
Unreachable(w) ==
    /\ workers[w].pc = "waiting"
    /\ workers' = [workers EXCEPT ![w] =
          WorkerSettle([HandlerLocals(workers, w) EXCEPT !.answers = Append(@, Unanswered)],
                       DoRaise(ConnectionAborted))]
    /\ UNCHANGED <<catalog, dispatchVars, streamVars, utilVars, gitVars>>

\* The response of a worker is sent; the worker is free again.
Respond(w) ==
    /\ workers[w].pc = "responded"
    /\ workers' = [workers EXCEPT ![w] = IdleWorker]
    /\ UNCHANGED <<catalog, dispatchVars, streamVars, utilVars, gitVars>>

\* The server at rest, with one client that may open a stream.
ServerInit ==
    /\ pc = "idle"
    /\ request = NoRequest
    /\ tool = ""
    /\ calls = <<>>
    /\ replies = <<>>
    /\ lastResp = NoResponse
    /\ exc = NoExc
    /\ result = JNull
    /\ http = NoHttp
    /\ workers = [w \in Workers |-> IdleWorker]
    /\ catalog = TOOLS
    /\ Apart
    /\ sessions = [c \in {"c1"} |-> NoSession]
    /\ clock = 0
    /\ cap = MaxPings

ServerNext ==
    \/ \E w \in Workers, req \in ServerRequests : Receive(w, req)
    \/ \E w \in Workers : ReceiveListTools(w)
    \/ \E w \in Workers, response \in ServerResponses : Answer(w, response)
    \/ \E w \in Workers : Unreachable(w)
    \/ \E w \in Workers : Respond(w)
    \/ StreamNext

ServerSpec == ServerInit /\ [][ServerNext]_vars

-----------------------------------------------------------------------------
(* C19 *)

\* The response call_tool gives to req when it runs alone and its backend
\* calls meet the answers given, in order; NoHttp while a call is in flight.
RECURSIVE Alone(_, _, _)
Alone(req, rs, answers) ==
    LET outcome == call_tool(req, rs) IN
    IF outcome.kind # "call" THEN handle_error(outcome)
    ELSE IF answers = <<>> THEN NoHttp
    ELSE IF Head(answers).kind = "failure" THEN handle_error(DoRaise(ConnectionAborted))
    ELSE LET raised == handle_github_response(Head(answers).response,
                                              outcome.call.error_message)
         IN IF raised # NoExc THEN handle_error(DoRaise(raised))
            ELSE Alone(req, Append(rs, Head(answers).response), Tail(answers))

\* C19: dispatch is stateless: whatever else the server is doing, a tool
\* call is answered as it is answered alone against the same backend
\* answers, a listing gives the catalog, and the catalog stays as it was
\* built, through every tool call and every stream.
C19_DispatchStateless ==
    /\ catalog = TOOLS
    /\ \A w \in Workers :
          /\ workers[w].path = "/api/call" =>
                workers[w].http = Alone(workers[w].request, <<>>, workers[w].answers)
          /\ (workers[w].path = "/api/call" /\ workers[w].pc = "responded") =>
                workers[w].http # NoHttp
          /\ workers[w].path = "/api/tools" =>
                workers[w].http = Http(200, ToolsDocument(TOOLS))

\* Two tool calls in hand at once, one answered after two backend calls, the
\* other waiting for its backend, while a stream has sent its first ping.
C19_Witness ==
    /\ workers["w1"].pc = "responded"
    /\ workers["w1"].http.status = 200
    /\ Len(workers["w1"].answers) = 2
    /\ workers["w2"].pc = "waiting"
    /\ workers["w2"].request # workers["w1"].request
    /\ Len(sessions["c1"].frames) = 3

-----------------------------------------------------------------------------
(* C21 *)

\* The tools of the search family.
SearchTools == {"search_repositories", "search_code", "search_issues", "search_users"}

\* A list operation has returned its envelope.
ListResult == Succeeded /\ tool \in ListTools

\* The pagination member of the result.
ResultPagination == DictGet(result, "pagination", JNull)

-----------------------------------------------------------------------------
(* C22, C30 *)

\* The arguments of the request in hand, an object.
RequestArgs == ArgsOf(request.data)

\* A list tool has queried the backend for a request with an arguments object.
ListQueried ==
    /\ pc # "idle"
    /\ tool \in ListTools
    /\ IsDict(RequestArgs)
    /\ Len(calls) = 1

\* The query parameters sent to the backend.
Query == calls[1].data

\* The backend was asked for the page and the page size given, and a result
\* returned is an envelope that echoes them.
Paged(page, per_page) ==
    /\ DictGet(Query, "page", JNull) = page
    /\ DictGet(Query, "per_page", JNull) = per_page
    /\ Succeeded =>
          /\ HasKey(result, "items")
          /\ DictGet(ResultPagination, "page", JNull) = page
          /\ DictGet(ResultPagination, "per_page", JNull) = per_page

\* C22: a list operation asked with neither a page nor a page size queries
\* the backend with page = 1 and per_page = 30 and echoes them; asked with
\* page and per_page it sends and echoes the caller's values.
C22_PageAndPerPage ==
    ListQueried =>
        /\ (~HasKey(RequestArgs, "page") /\ ~HasKey(RequestArgs, "per_page")
            /\ ~HasKey(RequestArgs, "perPage")) => Paged(JNum(1), JNum(30))
        /\ (HasKey(RequestArgs, "page") /\ HasKey(RequestArgs, "per_page")) =>
              Paged(DictGet(RequestArgs, "page", JNull),
                    DictGet(RequestArgs, "per_page", JNull))

\* C30: for each of the seven list tools, a request carrying perPage = N
\* queries the backend with per_page = N and echoes N in pagination.per_page.
C30_PerPageHonoured ==
    (ListQueried /\ HasKey(RequestArgs, "perPage")) =>
        /\ DictGet(Query, "per_page", JNull) = DictGet(RequestArgs, "perPage", JNull)
        /\ Succeeded =>
              DictGet(ResultPagination, "per_page", JNull)
                  = DictGet(RequestArgs, "perPage", JNull)

-----------------------------------------------------------------------------
(* C27 *)

\* The arguments that name the pull request in the path of the URL.
PathIdentifiers == {"owner", "repo", "pull_number"}

\* The tool named has sent its request to the backend for a request with an
\* arguments object.
Sent(name) ==
    /\ pc # "idle"
    /\ tool = name
    /\ IsDict(RequestArgs)
    /\ Len(calls) = 1

\* The body sent is the caller's arguments without the path identifiers.
ForwardsAll ==
    /\ calls[1].via = "json"
    /\ calls[1].data = DictWithout(RequestArgs, PathIdentifiers)

\* C27 as stated: merge_pull_request, create_pull_request_review and
\* update_pull_request_branch send the caller's arguments, less the path
\* identifiers, as the request body, whatever their names and values.
C27_OptionsForwarded ==
    \A name \in {"merge_pull_request", "create_pull_request_review",
                 "update_pull_request_branch"} :
        Sent(name) => ForwardsAll

\* C27, amended: merge_pull_request and create_pull_request_review send the
\* caller's arguments, less the path identifiers, as the request body;
\* update_pull_request_branch sends expected_head_sha alone, when the caller
\* gives one that is not empty, and an empty body otherwise.
C27_ForwardedPerTool ==
    /\ \A name \in {"merge_pull_request", "create_pull_request_review"} :
          Sent(name) => ForwardsAll
    /\ Sent("update_pull_request_branch") =>
          /\ calls[1].via = "json"
          /\ calls[1].data =
                IF Truthy(DictGet(RequestArgs, "expected_head_sha", JNull))
                THEN JObj(<< <<"expected_head_sha",
                               DictGet(RequestArgs, "expected_head_sha", JNull)>> >>)
                ELSE JObj(<<>>)

\* A merge was asked with a merge method and with arguments the backend has
\* no use for, and all of them were sent.
C27_Witness ==
    /\ Sent("merge_pull_request")
    /\ RequestArgs = FullArgs
    /\ DictGet(calls[1].data, "merge_method", JNull) = JStr("squash")
    /\ DictGet(calls[1].data, "query", JNull) = JStr("mcp")
    /\ ~HasKey(calls[1].data, "pull_number")

-----------------------------------------------------------------------------
(* C26 *)

\* get_file_contents was answered with a success: a 2xx status and a body
\* that is a JSON list or a JSON object.
ContentsAnswered ==
    /\ pc = "responded"
    /\ tool = "get_file_contents"
    /\ Len(calls) = 1
    /\ ResponseOk(lastResp)
    /\ lastResp.body.kind = "json"
    /\ lastResp.body.v.t \in {"arr", "obj"}

\* The body of the answer.
ContentsBody == lastResp.body.v

\* The body is of type file and has a content member.
FileBody ==
    /\ IsDict(ContentsBody)
    /\ DictGet(ContentsBody, "type", JNull) = JStr("file")
    /\ HasKey(ContentsBody, "content")

\* C26: get_file_contents never raises on a successful answer: a list is
\* returned as a directory holding it, a file with base64 content is
\* returned with its decoded_content added, any other body as it is.
C26_ContentsNeverRaise ==
    ContentsAnswered =>
        /\ Succeeded
        /\ result =
              IF ContentsBody.t = "arr"
              THEN JObj(<< <<"type", JStr("directory")>>,
                           <<"path", DictGet(RequestArgs, "path", JNull)>>,
                           <<"contents", ContentsBody>> >>)
              ELSE IF FileBody
              THEN DictSet(ContentsBody, "decoded_content",
                           decode_content(DictGet(ContentsBody, "content", JNull)).v)
              ELSE ContentsBody
        /\ FileBody => DictGet(result, "decoded_content", JNull).t = "str"

-----------------------------------------------------------------------------
(* parse_link_header called on its own *)

\* The entries a Link header is joined from, at most.
MaxEntries == 2

\* An entry of the shape <url>; rel="name".
LinkShape(url, rel) ==
    [text |-> "<" \o url \o ">; rel=" \o DQ \o rel \o DQ,
     shaped |-> TRUE, url |-> url, rel |-> rel]

\* An entry of another shape.
OtherShape(text) == [text |-> text, shaped |-> FALSE, url |-> "", rel |-> ""]

LinkEntries ==
    {LinkShape("u1", "next"), LinkShape("u2", "last"), LinkShape("u3", "next"),
     LinkShape("h?q=a,b", "prev"),
     OtherShape("<u4>"), OtherShape("x<u9>; rel=" \o DQ \o "first" \o DQ \o "x")}

EntrySeqs == UNION {[1..n -> LinkEntries] : n \in 0..MaxEntries}

\* The header value the backend joins the entries into.
RECURSIVE JoinEntries(_)
JoinEntries(entries) ==
    IF entries = <<>> THEN ""
    ELSE IF Len(entries) = 1 THEN entries[1].text
    ELSE entries[1].text \o ", " \o JoinEntries(Tail(entries))

\* The arguments of parse_link_header: None, or the header of some entries
\* (the empty str when there are none).
LinkArgs ==
    {[none |-> TRUE, entries |-> <<>>]}
    \cup {[none |-> FALSE, entries |-> entries] : entries \in EntrySeqs}

HeaderOf(a) == IF a.none THEN JNull ELSE JStr(JoinEntries(a.entries))

\* What `links` holds when a call starts on a header received after the
\* calls that already returned: a dict as left by an earlier call.
LinksLeftOver(returned) ==
    IF returned = <<>> THEN JObj(<<>>) ELSE returned[Len(returned)].value

\* links = {} (line 95): every call starts from a dict of its own.
LinksAtEntry(returned) == JObj(<<>>)

\* One call of parse_link_header, the first or the second of a run: nothing
\* but the returned dict is written.
ParseLinkHeader ==
    /\ Len(ret) < 2
    /\ \E a \in LinkArgs :
          LET link_header == HeaderOf(a)
              links == LinksAtEntry(ret)
          IN
          ret' = Append(ret,
                        [fn |-> "parse_link_header", arg |-> a,
                         value |-> IF ~Truthy(link_header) THEN links
                                   ELSE ParseLinks(Split(link_header.s, ","), links)])
    /\ UNCHANGED <<dispatchVars, streamVars, serverVars, gitVars>>

LinkNext == ParseLinkHeader

LinkSpec == Init /\ [][LinkNext]_vars

\* C23: parse_link_header is pure and idempotent: two calls with the same
\* header return identical mappings, a call changes nothing but what it
\* returns, and None or the empty header gives the empty mapping, never an error.
C23_ParseTwice ==
    /\ [](\A i \in DOMAIN ret :
            /\ IsDict(ret[i].value)
            /\ ret[i].value = parse_link_header(HeaderOf(ret[i].arg))
            /\ ~Truthy(HeaderOf(ret[i].arg)) => ret[i].value = JObj(<<>>)
            /\ \A j \in DOMAIN ret :
                  ret[i].arg = ret[j].arg => ret[i].value = ret[j].value)
    /\ [][/\ UNCHANGED <<dispatchVars, streamVars, serverVars, gitVars>>
          /\ SubSeq(ret', 1, Len(ret)) = ret]_vars

C23_Witness ==
    /\ Len(ret) = 2
    /\ ret[1].arg = ret[2].arg
    /\ HasKey(ret[2].value, "next")
    /\ HasKey(ret[2].value, "last")

\* The mapping the entries of the shape <url>; rel="name" give, each in its
\* turn, when no other entry gives anything.
RECURSIVE ShapedLinks(_, _)
ShapedLinks(entries, links) ==
    IF entries = <<>> THEN links
    ELSE ShapedLinks(Tail(entries),
                     IF Head(entries).shaped
                     THEN DictSet(links, Head(entries).rel, JStr(Head(entries).url))
                     ELSE links)

\* C24: parse_link_header is tolerant: each entry of the exact shape
\* <url>; rel="name" contributes name -> url, every other entry contributes
\* nothing, and no entry raises nor keeps a well-formed entry out.
C24_ExactShapeOnly ==
    \A i \in DOMAIN ret :
        ret[i].fn = "parse_link_header" =>
            /\ IsDict(ret[i].value)
            /\ ret[i].value = ShapedLinks(ret[i].arg.entries, JObj(<<>>))

-----------------------------------------------------------------------------
(* encode_content and decode_content called on their own; a str is the
   sequence of its code points *)

\* The code points of a str, at most.
MaxPoints == 3

\* Code points at the ends of the ranges UTF-8 encodes in one, two, three and
\* four bytes, and a surrogate, which no UTF-8 string holds.
CodePoints == {0, 65, 127, 128, 233, 2048, 8364, 55296, 65536, 1114111}

IsSurrogate(cp) == cp \in 55296..57343

PointSeqs == UNION {[1..n -> CodePoints] : n \in 0..MaxPoints}

\* An encoder that writes every code point as one byte.
Latin1Of(cp) == <<cp % 256>>

\* str.encode('utf-8') of one code point that is no surrogate.
Utf8Of(cp) ==
    IF cp < 128 THEN <<cp>>
    ELSE IF cp < 2048 THEN <<192 + (cp \div 64), 128 + (cp % 64)>>
    ELSE IF cp < 65536
    THEN <<224 + (cp \div 4096), 128 + ((cp \div 64) % 64), 128 + (cp % 64)>>
    ELSE <<240 + (cp \div 262144), 128 + ((cp \div 4096) % 64),
           128 + ((cp \div 64) % 64), 128 + (cp % 64)>>

RECURSIVE Utf8Bytes(_)
Utf8Bytes(points) ==
    IF points = <<>> THEN <<>> ELSE Utf8Of(Head(points)) \o Utf8Bytes(Tail(points))

\* encode_content(content): content.encode('utf-8') raises (UnicodeEncodeError)
\* on a surrogate.
EncodePoints(points) ==
    IF \E i \in DOMAIN points : IsSurrogate(points[i])
    THEN [exc |-> PyExc("UnicodeEncodeError", "surrogates not allowed"), v |-> ""]
    ELSE [exc |-> NoExc, v |-> b64encode(Utf8Bytes(points))]

IsContinuation(b) == b \in 128..191

\* The character that starts a byte sequence: [ok, cp, size]. A lead byte
\* tells the size; the bytes after it are continuation bytes; the code point
\* is none a shorter sequence encodes, no surrogate and none above 0x10FFFF.
FirstPoint(bytes) ==
    LET b == bytes[1]
        size == IF b < 128 THEN 1
                ELSE IF b \in 194..223 THEN 2
                ELSE IF b \in 224..239 THEN 3
                ELSE IF b \in 240..244 THEN 4
                ELSE 0
        tail(i) == bytes[i] - 128
        cp == IF size = 1 THEN b
              ELSE IF size = 2 THEN (b - 192) * 64 + tail(2)
              ELSE IF size = 3 THEN (b - 224) * 4096 + tail(2) * 64 + tail(3)
              ELSE (b - 240) * 262144 + tail(2) * 4096 + tail(3) * 64 + tail(4)
        least == IF size = 1 THEN 0 ELSE IF size = 2 THEN 128
                 ELSE IF size = 3 THEN 2048 ELSE 65536
    IN
    IF /\ size # 0
       /\ size <= Len(bytes)
       /\ \A i \in 2..size : IsContinuation(bytes[i])
       /\ cp >= least
       /\ cp <= 1114111
       /\ ~IsSurrogate(cp)
    THEN [ok |-> TRUE, cp |-> cp, size |-> size]
    ELSE [ok |-> FALSE, cp |-> 0, size |-> 0]

\* bytes.decode('utf-8'): [ok, points].
RECURSIVE Utf8Points(_)
Utf8Points(bytes) ==
    IF bytes = <<>> THEN [ok |-> TRUE, points |-> <<>>]
    ELSE LET first == FirstPoint(bytes)
             rest == Utf8Points(SubSeq(bytes, first.size + 1, Len(bytes)))
         IN
         IF first.ok /\ rest.ok
         THEN [ok |-> TRUE, points |-> <<first.cp>> \o rest.points]
         ELSE [ok |-> FALSE, points |-> <<>>]

\* decode_content(encoded_content) of a str.
DecodePoints(encoded_content) ==
    LET d == B64Digits(encoded_content)
        pad == CountPad(encoded_content)
        decoded == Utf8Points(B64Bytes(d))
    IN
    IF Len(d) % 4 = 1 \/ (Len(d) % 4 # 0 /\ pad < 4 - (Len(d) % 4))
    THEN [exc |-> PyExc("binascii.Error", "Incorrect padding"), v |-> <<>>]
    ELSE IF ~decoded.ok
    THEN [exc |-> PyExc("UnicodeDecodeError", "invalid start byte"), v |-> <<>>]
    ELSE [exc |-> NoExc, v |-> decoded.points]

EncodeContent ==
    /\ ret = <<>>
    /\ \E content \in PointSeqs :
          ret' = <<[fn |-> "encode_content", arg |-> content,
                    value |-> EncodePoints(content)]>>
    /\ UNCHANGED <<dispatchVars, streamVars, serverVars, gitVars>>

\* decode_content called with what encode_content returned.
DecodeContent ==
    /\ Len(ret) = 1
    /\ ret[1].fn = "encode_content"
    /\ ret[1].value.exc = NoExc
    /\ ret' = Append(ret, [fn |-> "decode_content", arg |-> ret[1].value.v,
                           value |-> DecodePoints(ret[1].value.v)])
    /\ UNCHANGED <<dispatchVars, streamVars, serverVars, gitVars>>

ContentNext == EncodeContent \/ DecodeContent

ContentSpec == Init /\ [][ContentNext]_vars

\* C25: for every UTF-8 string s, encode_content(s) returns, and
\* decode_content of what it returned returns s.
C25_RoundTrip ==
    /\ (/\ ret # <<>>
        /\ ret[1].fn = "encode_content"
        /\ \A i \in DOMAIN ret[1].arg : ~IsSurrogate(ret[1].arg[i]))
       => ret[1].value.exc = NoExc
    /\ (Len(ret) = 2 /\ ret[2].fn = "decode_content")
       => /\ ret[2].value.exc = NoExc
          /\ ret[2].value.v = ret[1].arg

C25_Witness ==
    /\ Len(ret) = 2
    /\ ret[2].fn = "decode_content"
    /\ ret[1].arg = <<233, 8364, 1114111>>
    /\ ret[2].value.v = <<233, 8364, 1114111>>

-----------------------------------------------------------------------------
(* C28 *)

\* frame is an SSE event named "message" whose data line is a JSON object
\* with jsonrpc "2.0", a string method, a string id and a params mapping.
MessageEvent(frame) ==
    LET data == FrameData(frame) IN
    /\ IsDict(data)
    /\ DictGet(data, "jsonrpc", JNull) = JStr("2.0")
    /\ DictGet(data, "method", JNull).t = "str"
    /\ DictGet(data, "id", JNull).t = "str"
    /\ IsDict(DictGet(data, "params", JNull))

\* C28: on either stream, whatever the owner and repo of the path, the
\* backend's repository payload and the error message, the connection is
\* served frames, each an SSE event named "message" whose data line is a
\* well-formed JSON-RPC object.
C28_EveryFrameMessageEvent ==
    \A c \in DOMAIN sessions :
        /\ sessions[c].kind = "repo" => sessions[c].pc # "refused"
        /\ \A i \in DOMAIN sessions[c].frames : MessageEvent(sessions[c].frames[i])

-----------------------------------------------------------------------------
(* push_files against a git database: two pushes to the same branch *)

Pushers == {"p1", "p2"}

PushOwner == JStr("a")

PushRepo == JStr("b")

PushBranch == JStr("main")

\* The files and message of a push.
PushInputs ==
    {[files |-> JArr(<< JObj(<< <<"path", JStr("f")>>, <<"content", JStr("x")>> >>) >>),
      message |-> JStr("m1")],
     [files |-> JArr(<< JObj(<< <<"path", JStr("g")>>, <<"content", JStr("y")>> >>) >>),
      message |-> JStr("m2")]}

\* The repository before any push: the branch points to a root commit.
FirstGit ==
    [ref |-> "c0",
     commits |-> <<[sha |-> "c0", parents |-> <<>>, tree |-> "t0"]>>,
     trees |-> <<[sha |-> "t0", base_tree |-> "", tree |-> JArr(<<>>)]>>]

HasCommit(g, sha) == \E i \in DOMAIN g.commits : g.commits[i].sha = sha

CommitOf(g, sha) == g.commits[CHOOSE i \in DOMAIN g.commits : g.commits[i].sha = sha]

HasTree(g, sha) == \E i \in DOMAIN g.trees : g.trees[i].sha = sha

TreeOf(g, sha) == g.trees[CHOOSE i \in DOMAIN g.trees : g.trees[i].sha = sha]

\* old is new or a commit new descends from by first parents.
RECURSIVE IsAncestor(_, _, _)
IsAncestor(g, old, new) ==
    IF old = new THEN TRUE
    ELSE IF ~HasCommit(g, new) \/ CommitOf(g, new).parents = <<>> THEN FALSE
    ELSE IsAncestor(g, old, CommitOf(g, new).parents[1])

ShaList(shas) == JArr([i \in DOMAIN shas |-> JObj(<< <<"sha", JStr(shas[i])>> >>)])

CommitDoc(commit) ==
    JObj(<< <<"sha", JStr(commit.sha)>>,
            <<"tree", JObj(<< <<"sha", JStr(commit.tree)>> >>)>>,
            <<"parents", ShaList(commit.parents)>> >>)

Refused(status_code, message) ==
    Response(status_code, JsonBody(JObj(<< <<"message", JStr(message)>> >>)), NoHeaders)

\* The str members of a list of str, in order.
ShaStrings(list) == [i \in DOMAIN list.m |-> list.m[i][2].s]

\* The backend's answer to a call of push_files and the database it leaves.
\* A ref update is given without `force`: the backend refuses it unless the
\* branch's commit is an ancestor of the new one.
GitBackend(g, call) ==
    LET ref_url == RepoUrl(PushOwner, PushRepo) \o "/git/refs/heads/" \o PyStr(PushBranch)
        commits_url == RepoUrl(PushOwner, PushRepo) \o "/git/commits"
        trees_url == RepoUrl(PushOwner, PushRepo) \o "/git/trees"
    IN
    CASE call.method = "GET" /\ call.url = ref_url ->
           [git |-> g,
            response |-> Response(200,
                JsonBody(JObj(<< <<"ref", JStr("refs/heads/" \o PyStr(PushBranch))>>,
                                 <<"object", JObj(<< <<"sha", JStr(g.ref)>> >>)>> >>)),
                NoHeaders)]
      [] call.method = "GET" /\ StartsWith(call.url, commits_url \o "/") ->
           LET sha == Slice(call.url, Len(commits_url) + 2, Len(call.url)) IN
           [git |-> g,
            response |-> IF HasCommit(g, sha)
                         THEN Response(200, JsonBody(CommitDoc(CommitOf(g, sha))), NoHeaders)
                         ELSE Refused(404, "Not Found")]
      [] call.method = "POST" /\ call.url = trees_url ->
           LET sha == "t" \o ToString(Len(g.trees))
               base_tree == DictGet(call.data, "base_tree", JNull)
           IN
           IF base_tree.t = "str" /\ HasTree(g, base_tree.s)
           THEN [git |-> [g EXCEPT !.trees =
                            Append(@, [sha |-> sha, base_tree |-> base_tree.s,
                                       tree |-> DictGet(call.data, "tree", JNull)])],
                 response |-> Response(201, JsonBody(JObj(<< <<"sha", JStr(sha)>> >>)),
                                       NoHeaders)]
           ELSE [git |-> g, response |-> Refused(422, "base_tree is not a valid tree")]
      [] call.method = "POST" /\ call.url = commits_url ->
           LET sha == "c" \o ToString(Len(g.commits))
               tree == DictGet(call.data, "tree", JNull)
               parents == DictGet(call.data, "parents", JArr(<<>>))
           IN
           IF /\ tree.t = "str" /\ HasTree(g, tree.s)
              /\ parents.t = "arr"
              /\ \A i \in DOMAIN parents.m :
                    parents.m[i][2].t = "str" /\ HasCommit(g, parents.m[i][2].s)
           THEN LET commit == [sha |-> sha, parents |-> ShaStrings(parents),
                               tree |-> tree.s]
                IN [git |-> [g EXCEPT !.commits = Append(@, commit)],
                    response |-> Response(201, JsonBody(CommitDoc(commit)), NoHeaders)]
           ELSE [git |-> g, response |-> Refused(422, "Invalid commit")]
      [] call.method = "PATCH" /\ call.url = ref_url ->
           LET sha == DictGet(call.data, "sha", JNull) IN
           IF sha.t = "str" /\ HasCommit(g, sha.s) /\ IsAncestor(g, g.ref, sha.s)
           THEN [git |-> [g EXCEPT !.ref = sha.s],
                 response |-> Response(200,
                     JsonBody(JObj(<< <<"ref", JStr("refs/heads/" \o PyStr(PushBranch))>>,
                                      <<"object", JObj(<< <<"sha", sha>> >>)>> >>)),
                     NoHeaders)]
           ELSE [git |-> g, response |-> Refused(422, "Update is not a fast forward")]
      [] OTHER -> [git |-> g, response |-> Refused(404, "Not Found")]

\* A push_files call: where it is, what it was given, the calls it made,
\* the answers it holds and how it ended.
IdlePush ==
    [pc |-> "idle", files |-> JNull, message |-> JNull, calls |-> <<>>,
     replies |-> <<>>, lastResp |-> NoResponse, exc |-> NoExc, result |-> JNull,
     http |-> NoHttp]

\* The push after one run of push_files, from one backend call to the next.
PushSettle(push, outcome) ==
    IF outcome.kind = "call"
    THEN [push EXCEPT !.pc = "waiting", !.calls = Append(@, outcome.call)]
    ELSE [push EXCEPT !.pc = "responded", !.exc = outcome.exc,
                      !.result = IF outcome.kind = "return" THEN outcome.result ELSE JNull,
                      !.http = handle_error(outcome)]

PushStep(push) ==
    push_files(PushOwner, PushRepo, PushBranch, push.files, push.message, push.replies)

\* A push_files call starts and runs up to its first backend call.
PushFiles(p, input) ==
    /\ pushes[p].pc = "idle"
    /\ LET push == [pushes[p] EXCEPT !.files = input.files, !.message = input.message] IN
       pushes' = [pushes EXCEPT ![p] = PushSettle(push, PushStep(push))]
    /\ UNCHANGED <<git, dispatchVars, streamVars, serverVars, utilVars>>

\* The backend executes the call in flight and answers it;
\* handle_github_response classifies the answer, and on success push_files
\* runs on to its next call or to its end.
GitAnswer(p) ==
    /\ pushes[p].pc = "waiting"
    /\ LET call == pushes[p].calls[Len(pushes[p].calls)]
           served == GitBackend(git, call)
           raised == handle_github_response(served.response, call.error_message)
           push == [pushes[p] EXCEPT !.lastResp = served.response]
           answered == [push EXCEPT !.replies = Append(@, served.response)]
       IN
       /\ git' = served.git
       /\ pushes' = [pushes EXCEPT ![p] =
                        IF raised # NoExc THEN PushSettle(push, DoRaise(raised))
                        ELSE PushSettle(answered, PushStep(answered))]
    /\ UNCHANGED <<dispatchVars, streamVars, serverVars, utilVars>>

\* The backend fails the call in flight without executing it.
GitUnavailable(p) ==
    /\ pushes[p].pc = "waiting"
    /\ LET call == pushes[p].calls[Len(pushes[p].calls)]
           response == Refused(500, "Server Error")
           push == [pushes[p] EXCEPT !.lastResp = response]
       IN
       pushes' = [pushes EXCEPT ![p] =
                     PushSettle(push, DoRaise(handle_github_response(response,
                                                                     call.error_message)))]
    /\ UNCHANGED <<git, dispatchVars, streamVars, serverVars, utilVars>>

PushInit ==
    /\ Quiet
    /\ pc = "idle"
    /\ request = NoRequest
    /\ tool = ""
    /\ calls = <<>>
    /\ replies = <<>>
    /\ lastResp = NoResponse
    /\ exc = NoExc
    /\ result = JNull
    /\ http = NoHttp
    /\ ret = <<>>
    /\ git = FirstGit
    /\ pushes = [p \in Pushers |-> IdlePush]

PushNext ==
    \/ \E p \in Pushers, input \in PushInputs : PushFiles(p, input)
    \/ \E p \in Pushers : GitAnswer(p)
    \/ \E p \in Pushers : GitUnavailable(p)

PushSpec == PushInit /\ [][PushNext]_vars

\* The commit the ref pointed to when the push read it, and the commit the
\* push created.
ReadSha(push) == DictGet(DictGet(push.replies[1].body.v, "object", JNull), "sha", JNull).s

CreatedSha(push) == DictGet(push.replies[4].body.v, "sha", JNull).s

\* The push sent its ref update and the backend refused it.
UpdateRefused(push) ==
    /\ push.pc = "responded"
    /\ Len(push.calls) = 5
    /\ Len(push.replies) = 4
    /\ push.lastResp.status_code = 422

\* C29: no update is lost when two push_files calls meet on a branch: the
\* commit a push creates has as its single parent the commit the ref pointed
\* to when the push read it, and its tree is based on that commit's tree; the
\* ref only ever moves to a commit whose parent is the ref's value just
\* before; a push whose ref update is refused surfaces the failure, and the
\* commit of a push that reported success stays in the branch's history.
C29_NoLostUpdate ==
    /\ [](\A p \in Pushers :
            LET push == pushes[p] IN
            /\ Len(push.replies) >= 4 =>
                  /\ CommitOf(git, CreatedSha(push)).parents = <<ReadSha(push)>>
                  /\ TreeOf(git, CommitOf(git, CreatedSha(push)).tree).base_tree
                        = CommitOf(git, ReadSha(push)).tree
            /\ UpdateRefused(push) =>
                  /\ push.exc.cls = "GitHubError"
                  /\ push.result = JNull
                  /\ push.http.status = 500
                  /\ git.ref # CreatedSha(push)
            /\ (push.pc = "responded" /\ push.exc = NoExc) =>
                  /\ Len(push.replies) = 5
                  /\ IsAncestor(git, CreatedSha(push), git.ref))
    /\ [][git.ref' # git.ref => CommitOf(git', git.ref').parents = <<git.ref>>]_vars

\* Both pushes read the same commit; one moved the ref, the other was refused.
C29_Witness ==
    /\ pushes["p1"].pc = "responded"
    /\ pushes["p1"].exc = NoExc
    /\ Len(pushes["p2"].replies) = 4
    /\ ReadSha(pushes["p1"]) = "c0"
    /\ ReadSha(pushes["p2"]) = "c0"
    /\ git.ref = CreatedSha(pushes["p1"])
    /\ UpdateRefused(pushes["p2"])

=============================================================================
